---- MODULE Spec2Model ----
(***************************************************************************)
(* Model of the two retrying pipelines of ask-panda-toolkit:               *)
(*   - PandaTaskStatusTool.call / _fetch_task_metadata                     *)
(*     (src/askpanda_mcp/tools/task_status.py)                             *)
(*   - MistralLLMClient.generate / _get_client / close                     *)
(*     (src/askpanda_mcp/llm/providers/mistral_client.py)                  *)
(* Both run on a cooperative asyncio event loop: a coroutine runs          *)
(* atomically from one await to the next, so every action below is the     *)
(* code between two suspension points.                                     *)
(* Durations are in tenths of a second.                                    *)
(***************************************************************************)
EXTENDS Integers, Sequences, FiniteSets, TLC

(***************************************************************************)
(* Bounds of the model.                                                    *)
(***************************************************************************)
\* largest value of ASKPANDA_PANDA_RETRIES explored
MaxRetries == 3

\* ASKPANDA_PANDA_BACKOFF_SECONDS default, "0.8" (tenths of a second)
PandaBackoffDefault == 8

\* number of generate calls the host dispatches
NumCalls == 2

\* largest value of ASKPANDA_MISTRAL_RETRIES explored
MaxTries == 2

\* largest value of ASKPANDA_MISTRAL_CONCURRENCY explored
MaxLimit == 2

\* number of close() calls the host makes
MaxCloses == 1

\* ASKPANDA_MISTRAL_BACKOFF_SECONDS default, "1.0" (tenths of a second)
MistralBackoffDefault == 10

\* An Optional[int] is a sequence of at most one integer: None is <<>>.
None == <<>>

Some(i) == <<i>>

RECURSIVE Pow2(_)
\* 2 ** n
Pow2(n) == IF n = 0 THEN 1 ELSE 2 * Pow2(n - 1)

VARIABLES
    \* ---- PandaTaskStatusTool.call / _fetch_task_metadata ----
    tpc,        \* position of the one tool call: idle, get, sleep, done
    arguments,  \* the arguments mapping of the call
    task_id,    \* the resolved task id (None when not determined)
    retries,    \* int(os.getenv("ASKPANDA_PANDA_RETRIES", "2"))
    backoff,    \* float(os.getenv("ASKPANDA_PANDA_BACKOFF_SECONDS", "0.8"))
    attempt,    \* loop variable of `for attempt in range(retries + 1)`
    last_exc,   \* last_exc of _fetch_task_metadata
    fetched,    \* how _fetch_task_metadata ended: none, return, raise
    out,        \* what call() gave the host: none, text, exception
    log,        \* outcome of every HTTP attempt made, in order
    waits,      \* duration of every asyncio.sleep performed, in order
    inflight,   \* number of HTTP requests of the call now in flight
    panda_debug, \* os.getenv("ASKPANDA_PANDA_DEBUG", "") == "1"
    \* ---- MistralLLMClient (process-wide and per instance) ----
    limit,      \* int(os.getenv("ASKPANDA_MISTRAL_CONCURRENCY", "4"))
    sem,        \* value of _MISTRAL_CONCURRENCY: the free slots of the gate
    tries,      \* int(os.getenv("ASKPANDA_MISTRAL_RETRIES", "3"))
    _client,    \* self._client of each instance: a session id, 0 for None
    _lock,      \* self._lock of each instance: the call holding it, 0 if free
    sessions,   \* every Mistral(...) object constructed: owner and state
    closing,    \* close() in progress: the session whose __aexit__ it awaits
    closes,     \* number of close() calls made so far
    \* ---- one generate call (a coroutine) ----
    gpc,        \* idle, gate, lockwait, aenter, net, sleep, done
    self,       \* the instance the call is made on
    iter,       \* iterations of `for _ in range(tries)` started
    gbackoff,   \* the local `backoff` of generate
    last_err,   \* the local `last_err` of generate
    client,     \* the local `client` of generate: a session id, 0 if unset
    entering,   \* the session whose __aenter__ the call awaits, 0 if none
    result,     \* how generate ended
    gwaits,     \* duration of every asyncio.sleep of the call, in order
    timedout,   \* the iteration in which asyncio.TimeoutError was raised
    \* ---- one run of _process_jobs ----
    jobs,        \* the `jobs` argument: for a list, the entries iterated so far
    ppc,         \* loop, returned, raised
    job_counts,  \* the Counter job_counts
    error_codes, \* the deque error_codes
    error_diags, \* the deque error_diags
    uniq_diags,  \* the list uniq_diags
    \* ---- one run of _summarize_task ----
    payload,     \* the payload argument
    spc,         \* idle, called, done
    task_info,   \* the local task_info
    summary,     \* the TaskSummary returned
    \* ---- one run of MistralLLMClient._normalize_messages ----
    messages,    \* the messages argument
    npc,         \* idle, loop, returned
    nm_out,      \* the local `out`
    \* ---- one call of AskPandaAnswerTool.call ----
    apc,         \* idle, status, llm, done
    a_arguments, \* the arguments mapping
    a_question,  \* the local `question`
    a_messages,  \* the local `messages`
    a_task_id,   \* the local `task_id`
    tool_result, \* the local `tool_result`, None before the tool returned
    a_calls,     \* the calls made to other tools, in order
    a_out,       \* how the call ended
    \* ---- bamboo.tools.task_status: _Tool.call ----
    _real,       \* the module found at import time, with what it defines
    wpc,         \* idle, running, done
    w_arguments, \* the arguments mapping
    invoked,     \* the invocations of the underlying implementation
    underlying,  \* how the invocation ended
    w_out        \* how the call ended

fetchVars == <<tpc, arguments, task_id, retries, backoff, attempt, last_exc,
               fetched, out, log, waits, inflight, panda_debug>>

envVars == <<limit, tries>>

sessVars == <<_client, _lock, sessions>>

genVars == <<limit, sem, tries, _client, _lock, sessions, closing, closes,
             gpc, self, iter, gbackoff, last_err, client, entering, result,
             gwaits, timedout>>

pjVars == <<jobs, ppc, job_counts, error_codes, error_diags, uniq_diags>>

sumVars == <<payload, spc, task_info, summary>>

normVars == <<messages, npc, nm_out>>

\* the variables of the components added after the four above
ansVars == <<apc, a_arguments, a_question, a_messages, a_task_id, tool_result,
             a_calls, a_out>>

wrapVars == <<_real, wpc, w_arguments, invoked, underlying, w_out>>

restVars == <<normVars, ansVars, wrapVars>>

vars == <<fetchVars, genVars, pjVars, sumVars, restVars>>

(***************************************************************************)
(* JSON values and the Python operations _process_jobs applies to them.    *)
(* A str is a sequence of one-character strings. A JSON value is a record  *)
(* with its Python type in t and its content in v:                         *)
(*   null, bool (v in BOOLEAN), int, float (v: its kind, "finite", "nan"   *)
(*   or "inf", and the number in tenths), str, list (v: the entries),      *)
(*   dict (v: the sequence of <<key, value>> pairs in insertion order).    *)
(***************************************************************************)
JNull == [t |-> "null", v |-> 0]

JBool(b) == [t |-> "bool", v |-> b]

JInt(n) == [t |-> "int", v |-> n]

JFloat(kind, tenths) == [t |-> "float", v |-> [kind |-> kind, tenths |-> tenths]]

JStr(chars) == [t |-> "str", v |-> chars]

JList(items) == [t |-> "list", v |-> items]

JDict(fields) == [t |-> "dict", v |-> fields]

UpperCase == <<"A", "B", "C", "D", "E", "F", "G", "H", "I", "J", "K", "L", "M", "N", "O", "P", "Q", "R", "S", "T", "U", "V", "W", "X", "Y", "Z">>

LowerCase == <<"a", "b", "c", "d", "e", "f", "g", "h", "i", "j", "k", "l", "m", "n", "o", "p", "q", "r", "s", "t", "u", "v", "w", "x", "y", "z">>

Whitespace == {" ", "\t", "\n", "\r"}

Digits == <<"0", "1", "2", "3", "4", "5", "6", "7", "8", "9">>

\* the lower-case letter of every upper-case letter
LowerOf ==
    [ch \in { UpperCase[i] : i \in 1..Len(UpperCase) } |->
        LowerCase[CHOOSE i \in 1..Len(UpperCase) : UpperCase[i] = ch]]

\* str.lower() of one character
LowerChar(ch) == IF ch \in DOMAIN LowerOf THEN LowerOf[ch] ELSE ch

\* str.lower()
Lower(str) == [i \in 1..Len(str) |-> LowerChar(str[i])]

\* `sub in str`
Contains(str, sub) ==
    \E i \in 1..(Len(str) - Len(sub) + 1) :
        SubSeq(str, i, i + Len(sub) - 1) = sub

\* str.strip()
Strip(str) ==
    LET keep == { i \in 1..Len(str) : str[i] \notin Whitespace } IN
    IF keep = {} THEN <<>>
    ELSE SubSeq(str, CHOOSE i \in keep : \A j \in keep : i <= j,
                     CHOOSE i \in keep : \A j \in keep : i >= j)

DigitValue(ch) == (CHOOSE i \in 1..Len(Digits) : Digits[i] = ch) - 1

IsDigit(ch) == \E i \in 1..Len(Digits) : Digits[i] = ch

RECURSIVE DigitsToNat(_)
\* the value of a non-empty sequence of decimal digits
DigitsToNat(ds) ==
    IF Len(ds) = 0 THEN 0
    ELSE 10 * DigitsToNat(SubSeq(ds, 1, Len(ds) - 1)) + DigitValue(ds[Len(ds)])

RECURSIVE NatToDigits(_)
\* str(n) for n >= 0
NatToDigits(n) ==
    IF n < 10 THEN <<Digits[n + 1]>>
    ELSE Append(NatToDigits(n \div 10), Digits[(n % 10) + 1])

\* the result of int(v): a value, or the exception raised
IntOk(n) == [raised |-> "none", v |-> n]

IntRaises(exc) == [raised |-> exc, v |-> 0]

\* int(str): surrounding whitespace is ignored, then an optional sign and
\* decimal digits; anything else is a ValueError
IntOfStr(str) ==
    LET body == Strip(str)
        signed == Len(body) > 0 /\ body[1] \in {"+", "-"}
        ds == IF signed THEN Tail(body) ELSE body IN
    IF Len(ds) = 0 \/ \E i \in 1..Len(ds) : ~IsDigit(ds[i])
    THEN IntRaises("ValueError")
    ELSE IntOk(IF signed /\ body[1] = "-" THEN 0 - DigitsToNat(ds)
               ELSE DigitsToNat(ds))

\* int(float): truncation toward zero; nan is a ValueError, an infinity an
\* OverflowError
IntOfFloat(x) ==
    IF x.kind = "nan" THEN IntRaises("ValueError")
    ELSE IF x.kind = "inf" THEN IntRaises("OverflowError")
    ELSE IntOk(IF x.tenths >= 0 THEN x.tenths \div 10
               ELSE 0 - ((0 - x.tenths) \div 10))

\* int(v) (line 148)
IntOf(val) ==
    CASE val.t = "int" -> IntOk(val.v)
      [] val.t = "bool" -> IntOk(IF val.v THEN 1 ELSE 0)
      [] val.t = "float" -> IntOfFloat(val.v)
      [] val.t = "str" -> IntOfStr(val.v)
      [] OTHER -> IntRaises("TypeError")

\* bool(v): the truth value Python gives a JSON value
Truthy(val) ==
    CASE val.t = "null" -> FALSE
      [] val.t = "bool" -> val.v
      [] val.t = "int" -> val.v # 0
      [] val.t = "float" -> val.v.kind # "finite" \/ val.v.tenths # 0
      [] OTHER -> Len(val.v) > 0

\* str(v) of a str or an int, the types a status field has here
StrOf(val) ==
    IF val.t = "str" THEN val.v
    ELSE IF val.v < 0 THEN <<"-">> \o NatToDigits(0 - val.v)
    ELSE NatToDigits(val.v)

\* the position of key in a dict's fields, 0 when absent
FieldIndex(fields, key) ==
    IF \E i \in 1..Len(fields) : fields[i][1] = key
    THEN CHOOSE i \in 1..Len(fields) : fields[i][1] = key
    ELSE 0

\* dict.get(key): None when the key is absent
Get(fields, key) ==
    IF FieldIndex(fields, key) = 0 THEN JNull
    ELSE fields[FieldIndex(fields, key)][2]

(***************************************************************************)
(* _process_jobs (task_status.py, lines 130-165)                           *)
(***************************************************************************)
\* deque(maxlen=50) (line 133)
ErrorCodesMaxLen == 50

\* deque(maxlen=20) (line 134)
ErrorDiagsMaxLen == 20

\* longest job list explored
MaxJobs == 5

s_jobstatus == <<"j", "o", "b", "s", "t", "a", "t", "u", "s">>

s_status == <<"s", "t", "a", "t", "u", "s">>

s_unknown == <<"u", "n", "k", "n", "o", "w", "n">>

s_errorcode == <<"e", "r", "r", "o", "r", "c", "o", "d", "e">>

s_errordiag == <<"e", "r", "r", "o", "r", "d", "i", "a", "g">>

\* The entries a monitor's `jobs` list is made of here, by name.
\*   many_errors : a failed job with 13 positive error codes, written as
\*                 int, str and float, and 7 diagnostics
\*   disk_full   : the job of the example of the documentation, its label
\*                 under `status`
\*   no_status   : a job with no status and with error code fields that do
\*                 not parse or are not positive, a blank and a non-string
\*                 diagnostic
\*   inf_code    : a job with an error code that is a float infinity, as
\*                 json.loads gives for 1e999
\*   not_a_job   : an entry that is not an object
JobEntryIds == {"many_errors", "disk_full", "no_status", "inf_code", "not_a_job"}

JobEntries ==
    [id \in JobEntryIds |->
    CASE id = "many_errors" -> JDict(<<
              <<<<"j", "o", "b", "s", "t", "a", "t", "u", "s">>, JStr(<<"f", "a", "i", "l", "e", "d">>)>>,
              <<<<"s", "t", "a", "t", "u", "s">>, JStr(<<"d", "o", "n", "e">>)>>,
              <<<<"b", "r", "o", "k", "e", "r", "a", "g", "e", "e", "r", "r", "o", "r", "c", "o", "d", "e">>, JInt(101)>>,
              <<<<"b", "r", "o", "k", "e", "r", "a", "g", "e", "e", "r", "r", "o", "r", "d", "i", "a", "g">>, JStr(<<"n", "o", " ", "s", "i", "t", "e">>)>>,
              <<<<"d", "d", "m", "E", "r", "r", "o", "r", "C", "o", "d", "e">>, JStr(<<"1", "0", "2">>)>>,
              <<<<"d", "d", "m", "E", "r", "r", "o", "r", "D", "i", "a", "g">>, JStr(<<"l", "o", "s", "t", " ", "f", "i", "l", "e">>)>>,
              <<<<"e", "x", "e", "e", "r", "r", "o", "r", "c", "o", "d", "e">>, JStr(<<" ", "1", "0", "3", " ">>)>>,
              <<<<"e", "x", "e", "e", "r", "r", "o", "r", "d", "i", "a", "g">>, JStr(<<"e", "x", "e", " ", "c", "r", "a", "s", "h", "\n">>)>>,
              <<<<"j", "o", "b", "D", "i", "s", "p", "a", "t", "c", "h", "e", "r", "E", "r", "r", "o", "r", "C", "o", "d", "e">>, JFloat("finite", 1049)>>,
              <<<<"j", "o", "b", "D", "i", "s", "p", "a", "t", "c", "h", "e", "r", "E", "r", "r", "o", "r", "D", "i", "a", "g">>, JStr(<<"t", "i", "m", "e", "o", "u", "t">>)>>,
              <<<<"P", "I", "L", "O", "T", "E", "R", "R", "O", "R", "C", "O", "D", "E">>, JInt(105)>>,
              <<<<"P", "I", "L", "O", "T", "E", "R", "R", "O", "R", "D", "I", "A", "G">>, JStr(<<" ", "p", "i", "l", "o", "t", " ", "k", "i", "l", "l">>)>>,
              <<<<"s", "u", "p", "e", "r", "r", "o", "r", "c", "o", "d", "e">>, JStr(<<"+", "1", "0", "6">>)>>,
              <<<<"s", "u", "p", "e", "r", "r", "o", "r", "d", "i", "a", "g">>, JStr(<<"s", "u", "p", " ", "f", "a", "i", "l">>)>>,
              <<<<"t", "a", "s", "k", "b", "u", "f", "f", "e", "r", "e", "r", "r", "o", "r", "c", "o", "d", "e">>, JInt(107)>>,
              <<<<"t", "a", "s", "k", "b", "u", "f", "f", "e", "r", "e", "r", "r", "o", "r", "d", "i", "a", "g">>, JStr(<<"d", "b", " ", "e", "r", "r", "o", "r">>)>>,
              <<<<"e", "r", "r", "o", "r", "C", "o", "d", "e", "_", "t", "r", "a", "n", "s">>, JInt(108)>>,
              <<<<"e", "r", "r", "o", "r", "c", "o", "d", "e">>, JInt(109)>>,
              <<<<"e", "r", "r", "o", "r", "c", "o", "d", "e", "_", "a">>, JInt(110)>>,
              <<<<"e", "r", "r", "o", "r", "c", "o", "d", "e", "_", "b">>, JInt(111)>>,
              <<<<"e", "r", "r", "o", "r", "c", "o", "d", "e", "_", "c">>, JInt(112)>>,
              <<<<"e", "r", "r", "o", "r", "c", "o", "d", "e", "_", "d">>, JInt(113)>>,
              <<<<"t", "r", "a", "n", "s", "e", "x", "i", "t", "c", "o", "d", "e">>, JInt(1)>>,
              <<<<"a", "t", "t", "e", "m", "p", "t", "n", "r">>, JInt(2)>> >>)
      [] id = "disk_full" -> JDict(<<
              <<<<"s", "t", "a", "t", "u", "s">>, JStr(<<"f", "i", "n", "i", "s", "h", "e", "d">>)>>,
              <<<<"e", "r", "r", "o", "r", "C", "o", "d", "e", "_", "p", "i", "l", "o", "t">>, JStr(<<"1", "9", "1">>)>>,
              <<<<"e", "r", "r", "o", "r", "D", "i", "a", "g", "_", "x">>, JStr(<<" ", " ", "d", "i", "s", "k", " ", "f", "u", "l", "l", " ", " ">>)>> >>)
      [] id = "no_status" -> JDict(<<
              <<<<"j", "o", "b", "s", "t", "a", "t", "u", "s">>, JStr(<<>>)>>,
              <<<<"p", "i", "l", "o", "t", "e", "r", "r", "o", "r", "c", "o", "d", "e">>, JStr(<<"a", "b", "c">>)>>,
              <<<<"e", "x", "e", "e", "r", "r", "o", "r", "c", "o", "d", "e">>, JNull>>,
              <<<<"d", "d", "m", "e", "r", "r", "o", "r", "c", "o", "d", "e">>, JList(<<JInt(1)>>)>>,
              <<<<"s", "u", "p", "e", "r", "r", "o", "r", "c", "o", "d", "e">>, JDict(<<>>)>>,
              <<<<"b", "r", "o", "k", "e", "r", "a", "g", "e", "e", "r", "r", "o", "r", "c", "o", "d", "e">>, JFloat("nan", 0)>>,
              <<<<"t", "a", "s", "k", "b", "u", "f", "f", "e", "r", "e", "r", "r", "o", "r", "c", "o", "d", "e">>, JInt(0)>>,
              <<<<"j", "o", "b", "d", "i", "s", "p", "a", "t", "c", "h", "e", "r", "e", "r", "r", "o", "r", "c", "o", "d", "e">>, JInt(-5)>>,
              <<<<"t", "r", "a", "n", "s", "e", "r", "r", "o", "r", "c", "o", "d", "e">>, JStr(<<"1", ".", "5">>)>>,
              <<<<"p", "i", "l", "o", "t", "E", "r", "r", "o", "r", "D", "i", "a", "g">>, JStr(<<" ", " ", " ">>)>>,
              <<<<"e", "x", "e", "E", "r", "r", "o", "r", "D", "i", "a", "g">>, JInt(17)>>,
              <<<<"d", "d", "m", "E", "r", "r", "o", "r", "D", "i", "a", "g">>, JStr(<<"l", "o", "s", "t", " ", "h", "e", "a", "r", "t", "b", "e", "a", "t", "\n">>)>>,
              <<<<"f", "i", "n", "a", "l", "e", "r", "r", "o", "r", "c", "o", "d", "e">>, JStr(<<"1", "2">>)>> >>)
      [] id = "inf_code" -> JDict(<<
              <<<<"j", "o", "b", "s", "t", "a", "t", "u", "s">>, JStr(<<"f", "a", "i", "l", "e", "d">>)>>,
              <<<<"e", "x", "e", "e", "r", "r", "o", "r", "c", "o", "d", "e">>, JInt(1)>>,
              <<<<"p", "i", "l", "o", "t", "e", "r", "r", "o", "r", "c", "o", "d", "e">>, JFloat("inf", 0)>>,
              <<<<"d", "d", "m", "e", "r", "r", "o", "r", "c", "o", "d", "e">>, JInt(9)>>,
              <<<<"p", "i", "l", "o", "t", "E", "r", "r", "o", "r", "D", "i", "a", "g">>, JStr(<<"o", "v", "e", "r", "f", "l", "o", "w">>)>> >>)
      [] OTHER -> JStr(<<"o", "o", "p", "s">>)]

JobEntry(id) == JobEntries[id]

\* the values of payload.get("jobs") that are no list
NonListJobs == { JNull, JDict(<<>>), JStr(<<"n", "o", "n", "e">>) }

\* (mutation) a queue that refuses a new item when it is full
DequeAppend_KeepOldest(q, x, maxlen) ==
    IF Len(q) >= maxlen THEN q ELSE Append(q, x)

\* deque(maxlen=...).append(x): when full, the item at the left end goes
DequeAppend(q, x, maxlen) ==
    IF Len(q) >= maxlen THEN Append(Tail(q), x) ELSE Append(q, x)

\* (mutation) the count is set, not incremented
CounterIncr_Assign(counts, key) ==
    [k \in (DOMAIN counts) \cup {key} |-> IF k = key THEN 1 ELSE counts[k]]

\* `job_counts[js] += 1` on a Counter (line 141)
CounterIncr(counts, key) ==
    [k \in (DOMAIN counts) \cup {key} |->
        IF k = key THEN (IF key \in DOMAIN counts THEN counts[key] ELSE 0) + 1
        ELSE counts[k]]

\* (mutation) `status` looked at before `jobstatus`
StatusLabel_StatusFirst(fields) ==
    IF Truthy(Get(fields, s_status)) THEN StrOf(Get(fields, s_status))
    ELSE IF Truthy(Get(fields, s_jobstatus)) THEN StrOf(Get(fields, s_jobstatus))
    ELSE s_unknown

\* str(job.get("jobstatus") or job.get("status") or "unknown") (line 140)
StatusLabel(fields) ==
    IF Truthy(Get(fields, s_jobstatus)) THEN StrOf(Get(fields, s_jobstatus))
    ELSE IF Truthy(Get(fields, s_status)) THEN StrOf(Get(fields, s_status))
    ELSE s_unknown

\* `"errorcode" in lk` (lines 145-146)
IsErrorCodeKey(key) == Contains(Lower(key), s_errorcode)

\* `"errordiag" in lk` (lines 145, 153)
IsErrorDiagKey(key) == Contains(Lower(key), s_errordiag)

\* `except (ValueError, TypeError)` (line 151)
CodeParseCaught(exc) == exc \in {"ValueError", "TypeError"}

\* the loop variables when _process_jobs is entered (lines 132-134)
NoCounts == [k \in {} |-> 0]

LoopStart == [job_counts |-> NoCounts, error_codes |-> <<>>,
              error_diags |-> <<>>, raised |-> "none"]

\* lines 146-154 for one field: iv is int(v) where the key names an error
\* code, is_code tells whether it does, diag is v.strip() where the key
\* names a diagnostic and v is a str, and <<>> otherwise
FieldStep(st, is_code, iv, diag) ==
    IF is_code /\ iv.raised # "none" /\ ~CodeParseCaught(iv.raised)
    THEN [st EXCEPT !.raised = iv.raised]
    ELSE [st EXCEPT
            !.error_codes = IF is_code /\ iv.raised = "none" /\ iv.v > 0
                            THEN DequeAppend(@, iv.v, ErrorCodesMaxLen)
                            ELSE @,
            !.error_diags = IF diag # <<>>
                            THEN DequeAppend(@, diag, ErrorDiagsMaxLen)
                            ELSE @]

RECURSIVE ScanFields(_, _, _)
\* `for k, v in job.items()` from field i on (lines 144-154)
ScanFields(fields, i, st) ==
    IF i > Len(fields) \/ st.raised # "none" THEN st
    ELSE ScanFields(fields, i + 1,
            FieldStep(st,
                      IsErrorCodeKey(fields[i][1]),
                      IF IsErrorCodeKey(fields[i][1]) THEN IntOf(fields[i][2])
                      ELSE IntOk(0),
                      IF IsErrorDiagKey(fields[i][1]) /\ fields[i][2].t = "str"
                      THEN Strip(fields[i][2].v) ELSE <<>>))

\* one iteration of `for job in jobs` (lines 137-154)
LoopBody(st, job) ==
    IF job.t # "dict" THEN st
    ELSE ScanFields(job.v, 1,
                    [st EXCEPT !.job_counts = CounterIncr(@, StatusLabel(job.v))])

RECURSIVE Dedup_KeepAll(_, _)
\* (mutation) no de-duplication
Dedup_KeepAll(diags, seen) == diags

RECURSIVE Dedup_AddBeforeCheck(_, _)
\* (mutation) the string is put into `seen` before `seen` is looked at
Dedup_AddBeforeCheck(diags, seen) ==
    IF diags = <<>> THEN <<>>
    ELSE IF Head(diags) \in seen \cup {Head(diags)}
    THEN Dedup_AddBeforeCheck(Tail(diags), seen \cup {Head(diags)})
    ELSE <<Head(diags)>> \o Dedup_AddBeforeCheck(Tail(diags), seen \cup {Head(diags)})

RECURSIVE Dedup(_, _)
\* lines 157-163: the strings of diags not in seen, each once, in order
Dedup(diags, seen) ==
    IF diags = <<>> THEN <<>>
    ELSE IF Head(diags) \in seen THEN Dedup(Tail(diags), seen)
    ELSE <<Head(diags)>> \o Dedup(Tail(diags), seen \cup {Head(diags)})

RECURSIVE RunLoopOver(_, _, _)
\* the loop of lines 137-154 over entries i.. of a list
RunLoopOver(entries, i, st) ==
    IF i > Len(entries) \/ st.raised # "none" THEN st
    ELSE RunLoopOver(entries, i + 1, LoopBody(st, entries[i]))

\* _process_jobs(jobs): the tuple returned, or the exception raised
_process_jobs(jobsval) ==
    LET st == IF jobsval.t = "list" THEN RunLoopOver(jobsval.v, 1, LoopStart)
              ELSE LoopStart IN
    [raised |-> st.raised,
     job_counts |-> st.job_counts,
     error_codes |-> st.error_codes,
     error_diags |-> Dedup(st.error_diags, {})]

\* _process_jobs is entered with a list, of which nothing is iterated yet,
\* or with a value that is no list
ProcessJobsStart ==
    /\ jobs \in {JList(<<>>)} \cup NonListJobs
    /\ ppc = "loop"
    /\ job_counts = NoCounts
    /\ error_codes = <<>>
    /\ error_diags = <<>>
    /\ uniq_diags = <<>>

\* not running
ProcessJobsIdle ==
    /\ jobs = JNull
    /\ ppc = "idle"
    /\ job_counts = NoCounts
    /\ error_codes = <<>>
    /\ error_diags = <<>>
    /\ uniq_diags = <<>>

\* the loop takes the next entry e of the list (lines 137-154)
Iterate(e) ==
    /\ ppc = "loop"
    /\ jobs.t = "list"
    /\ Len(jobs.v) < MaxJobs
    /\ jobs' = JList(Append(jobs.v, e))
    /\ \E st \in { LoopBody([job_counts |-> job_counts,
                              error_codes |-> error_codes,
                              error_diags |-> error_diags, raised |-> "none"],
                             JobEntry(e)) } :
       IF st.raised # "none"
       THEN /\ ppc' = "raised"
            /\ job_counts' = NoCounts
            /\ error_codes' = <<>>
            /\ error_diags' = <<>>
       ELSE /\ ppc' = "loop"
            /\ job_counts' = st.job_counts
            /\ error_codes' = st.error_codes
            /\ error_diags' = st.error_diags
    /\ UNCHANGED uniq_diags

\* the list is exhausted, or `jobs` is no list: lines 156-165
Return ==
    /\ ppc = "loop"
    /\ uniq_diags' = Dedup(error_diags, {})
    /\ ppc' = "returned"
    /\ UNCHANGED <<jobs, job_counts, error_codes, error_diags>>

(***************************************************************************)
(* _extract_task_info, _try_status, _summarize_task (lines 120-127,        *)
(* 168-207). A payload is the JSON object the monitor returned, given by   *)
(* the values of the four keys the code reads; JNull stands for a key that *)
(* is absent.                                                              *)
(***************************************************************************)
s_taskstatus == <<"t", "a", "s", "k", "s", "t", "a", "t", "u", "s">>

\* os.getenv("PANDA_BASE_URL", "https://bigpanda.cern.ch").rstrip("/") (line 54)
PandaBaseUrl == "https://bigpanda.cern.ch"

\* f"{base}/task/{task_id}/" (line 179)
MonitorUrl(tid) == [base |-> PandaBaseUrl, task |-> tid]

Payload(task, taskstatus, status, jobsval) ==
    [task |-> task, taskstatus |-> taskstatus, status |-> status, jobs |-> jobsval]

\* (mutation) a task that is itself an object is not looked at
_extract_task_info_ListOnly(p) ==
    IF p.task.t = "list" /\ Truthy(p.task) /\ p.task.v[1].t = "dict"
    THEN p.task.v[1]
    ELSE JNull

\* _extract_task_info (lines 120-127); JNull is None
_extract_task_info(p) ==
    IF p.task.t = "list" /\ Truthy(p.task) /\ p.task.v[1].t = "dict"
    THEN p.task.v[1]
    ELSE IF p.task.t = "dict" THEN p.task
    ELSE JNull

\* the fields of `(task_info or {})` (lines 184-185)
OrEmptyDict(info) == IF Truthy(info) THEN info.v ELSE <<>>

\* (mutation) the payload's own fields before those of the task info
StatusCandidates_PayloadFirst(info, p) ==
    << p.taskstatus, p.status,
       Get(OrEmptyDict(info), s_taskstatus), Get(OrEmptyDict(info), s_status) >>

\* the arguments of _try_status at lines 183-188, in order
StatusCandidates(info, p) ==
    << Get(OrEmptyDict(info), s_taskstatus), Get(OrEmptyDict(info), s_status),
       p.taskstatus, p.status >>

RECURSIVE _try_status(_)
\* _try_status (lines 202-207)
_try_status(candidates) ==
    IF candidates = <<>> THEN s_unknown
    ELSE IF Truthy(Head(candidates)) THEN StrOf(Head(candidates))
    ELSE _try_status(Tail(candidates))

NoSummary == [raised |-> "none", task_id |-> 0, status |-> <<>>,
              job_counts |-> NoCounts, error_codes |-> <<>>,
              error_diags |-> <<>>, monitor_url |-> MonitorUrl(0)]

\* _summarize_task (lines 168-199): the TaskSummary, or, in raised, the
\* exception _process_jobs raised
SummaryOf(tid, p, pj) ==
    [raised |-> pj.raised,
     task_id |-> tid,
     status |-> _try_status(StatusCandidates(_extract_task_info(p), p)),
     job_counts |-> pj.job_counts,
     error_codes |-> pj.error_codes,
     error_diags |-> pj.error_diags,
     monitor_url |-> MonitorUrl(tid)]

_summarize_task(tid, p) == SummaryOf(tid, p, _process_jobs(p.jobs))

\* a task-info object with the given taskstatus and status
TaskObject(taskstatus, status) ==
    JDict((IF taskstatus = JNull THEN <<>> ELSE << <<s_taskstatus, taskstatus>> >>)
          \o << <<<<"j", "e", "d", "i", "t", "a", "s", "k", "i", "d">>, JInt(7)>> >>
          \o (IF status = JNull THEN <<>> ELSE << <<s_status, status>> >>))

\* the values a status field takes: absent, empty, a word
StatusValues(word) == { JNull, JStr(<<>>), JStr(word) }

TaskObjects ==
    { TaskObject(a, b) : a \in StatusValues(<<"r", "u", "n", "n", "i", "n", "g">>), b \in StatusValues(<<"r", "e", "a", "d", "y">>) }

\* the values of payload["task"] explored: absent, empty, scalars, lists
\* whose first element is no object, objects, lists of objects
TaskValues ==
    { JNull, JList(<<>>), JDict(<<>>), JStr(<<"x">>), JInt(5),
      JList(<<JInt(5)>>), JList(<<JStr(<<"x">>), TaskObject(JStr(<<"r", "u", "n", "n", "i", "n", "g">>), JNull)>>) }
    \cup TaskObjects
    \cup { JList(<<o>>) : o \in TaskObjects }
    \cup { JList(<<o, TaskObject(JStr(<<"d", "o", "n", "e">>), JStr(<<"r", "u", "n", "n", "i", "n", "g">>))>>) : o \in TaskObjects }

SummaryPayloads ==
    { Payload(t, a, b, JNull) :
        t \in TaskValues, a \in StatusValues(<<"f", "i", "n", "i", "s", "h", "e", "d">>), b \in StatusValues(<<"d", "o", "n", "e">>) }

TheTaskId == 7

SummarizeIdle ==
    /\ payload = Payload(JNull, JNull, JNull, JNull)
    /\ spc = "idle"
    /\ task_info = JNull
    /\ summary = NoSummary

\* _summarize_task is called with some payload
SummarizeStart ==
    /\ payload \in SummaryPayloads
    /\ spc = "called"
    /\ task_info = JNull
    /\ summary = NoSummary

\* lines 178-199
Summarize ==
    /\ spc = "called"
    /\ task_info' = _extract_task_info(payload)
    /\ summary' = _summarize_task(TheTaskId, payload)
    /\ spc' = "done"
    /\ UNCHANGED payload

(***************************************************************************)
(* MistralLLMClient._normalize_messages (mistral_client.py lines 65-83).   *)
(* A message is a mapping; a key that is absent is None, a key that is     *)
(* there is Some(value).                                                   *)
(***************************************************************************)
MaxMessages == 2

Message(role, name, content) == [role |-> role, name |-> name, content |-> content]

r_system == <<"s", "y", "s", "t", "e", "m">>

r_user == <<"u", "s", "e", "r">>

r_assistant == <<"a", "s", "s", "i", "s", "t", "a", "n", "t">>

r_tool == <<"t", "o", "o", "l">>

\* the roles the provider accepts (line 79)
ProviderRoles == {r_system, r_user, r_assistant}

\* m.get(key, default)
GetOr(field, default) == IF field = None THEN default ELSE field[1]

\* f"[tool:{m['name']}]\n{content}" (line 77)
ToolTagged(name, content) ==
    <<"[", "t", "o", "o", "l", ":">> \o name \o <<"]", "\n">> \o content

\* (mutation) a tool message is sent on as a user message
NormalizedRole_ToolAsUser(role) ==
    IF role \in ProviderRoles THEN role ELSE r_user

\* the role after lines 73-80
NormalizedRole(role) ==
    IF role = r_tool THEN r_assistant
    ELSE IF role \notin ProviderRoles THEN r_user
    ELSE role

\* the content after lines 73-77
NormalizedContent(role, name, content) ==
    IF role = r_tool /\ name # None /\ name[1] # <<>>
    THEN ToolTagged(name[1], content)
    ELSE content

\* the body of the loop (lines 69-82) for one message
NormalizeOne(m) ==
    [role |-> NormalizedRole(GetOr(m.role, r_user)),
     content |-> NormalizedContent(GetOr(m.role, r_user), m.name, GetOr(m.content, <<>>))]

\* the messages explored: every role the code tells apart, one it does not
\* know and one in another case, with and without name and content
MessageSet ==
    { Message(r, n, c) :
        r \in {None, Some(r_system), Some(r_user), Some(r_assistant),
               Some(r_tool), Some(<<"f", "u", "n", "c", "t", "i", "o", "n">>), Some(<<"T", "o", "o", "l">>)},
        n \in {None, Some(<<>>), Some(<<"r", "a", "g">>)},
        c \in {None, Some(<<"h", "i">>)} }

RECURSIVE SeqsUpTo(_, _)
\* the sequences over S of length at most n
SeqsUpTo(S, n) ==
    IF n = 0 THEN {<<>>}
    ELSE LET shorter == SeqsUpTo(S, n - 1) IN
         shorter \cup { Append(q, x) : q \in shorter, x \in S }

NormalizeIdle ==
    /\ messages = <<>>
    /\ npc = "idle"
    /\ nm_out = <<>>

\* _normalize_messages is entered (line 67)
NormalizeStart ==
    /\ messages \in SeqsUpTo(MessageSet, MaxMessages)
    /\ npc = "loop"
    /\ nm_out = <<>>

\* one iteration of `for m in messages` (lines 68-82)
NormalizeNext ==
    /\ npc = "loop"
    /\ Len(nm_out) < Len(messages)
    /\ nm_out' = Append(nm_out, NormalizeOne(messages[Len(nm_out) + 1]))
    /\ UNCHANGED <<messages, npc>>

\* `return out` (line 83)
NormalizeReturn ==
    /\ npc = "loop"
    /\ Len(nm_out) = Len(messages)
    /\ npc' = "returned"
    /\ UNCHANGED <<messages, nm_out>>


(***************************************************************************)
(* AskPandaAnswerTool.call (bamboo_answer.py lines 79-135) with             *)
(* _extract_task_id (lines 26-36) and _compact (lines 43-51).              *)
(***************************************************************************)
WordChars ==
    { Digits[i] : i \in 1..Len(Digits) } \cup { UpperCase[i] : i \in 1..Len(UpperCase) }
    \cup { LowerCase[i] : i \in 1..Len(LowerCase) } \cup {"_"}

DigitChars == { Digits[i] : i \in 1..Len(Digits) }

\* the class [:#/\-\s] of _TASK_PATTERN
TaskSeparators == {":", "#", "/", "-"} \cup Whitespace

\* {1,12} of _TASK_PATTERN
TaskDigitsMax == 12

\* the first index from j on whose character is not in chars, Len + 1 if none
SkipWhile(text, j, chars) ==
    LET stops == { k \in j..Len(text) : text[k] \notin chars } IN
    IF stops = {} THEN Len(text) + 1
    ELSE CHOOSE k \in stops : \A l \in stops : k <= l

\* _TASK_PATTERN matches with its "task" at index i: a word boundary, "task"
\* in any case, separators, 1 to 12 digits, a word boundary
TaskPatternAt(text, i) ==
    /\ i + 3 <= Len(text)
    /\ Lower(SubSeq(text, i, i + 3)) = <<"t", "a", "s", "k">>
    /\ (i = 1 \/ text[i - 1] \notin WordChars)
    /\ \E d \in {SkipWhile(text, i + 4, TaskSeparators)} :
       \E e \in {SkipWhile(text, d, DigitChars)} :
          /\ e - d >= 1
          /\ e - d <= TaskDigitsMax
          /\ (e > Len(text) \/ text[e] \notin WordChars)

\* m.group(1) of the match at index i
TaskDigitsAt(text, i) ==
    LET d == SkipWhile(text, i + 4, TaskSeparators) IN
    SubSeq(text, d, SkipWhile(text, d, DigitChars) - 1)

\* (mutation) the pattern is not searched for, no text has a task id
_extract_task_id_Never(text) == None

\* _extract_task_id (lines 29-36): search finds the leftmost match
_extract_task_id(text) ==
    LET hits == { i \in 1..Len(text) : TaskPatternAt(text, i) } IN
    IF hits = {} THEN None
    ELSE Some(DigitsToNat(TaskDigitsAt(text, CHOOSE i \in hits : \A j \in hits : i <= j)))

\* limit of _compact (line 43)
CompactLimit == 6000

\* An object the task-status tool returns is known by a name and by the
\* length of its JSON text.
Evidence(name, size) == [name |-> name, size |-> size]

\* _compact (lines 43-51): the JSON text, cut at the limit
_compact(obj) ==
    [of |-> obj.name,
     chars |-> IF obj.size > CompactLimit THEN CompactLimit ELSE obj.size,
     truncated |-> obj.size > CompactLimit]

\* a mapping the task-status tool returns, with or without an "evidence" key
ToolResult(name, size, evidence) == [name |-> name, size |-> size, evidence |-> evidence]

\* tool_result.get("evidence", tool_result) (line 110)
EvidenceOf(r) ==
    IF r.evidence # None THEN r.evidence[1] ELSE Evidence(r.name, r.size)

\* the content of a message: a text, or the prompt of lines 126-129
TextContent(text) == [t |-> "str", question |-> text, evidence |-> _compact(Evidence("none", 0))]

PromptContent(question, evidence) ==
    [t |-> "prompt", question |-> question, evidence |-> _compact(evidence)]

ChatMessage(role, content) == [role |-> role, content |-> content]

\* a call made to another tool and its arguments mapping
ToolCall(tool, task, query, include_jobs, msgs, question) ==
    [tool |-> tool, task_id |-> task, query |-> query,
     include_jobs |-> include_jobs, messages |-> msgs, question |-> question]

\* askpanda_llm_answer_tool.call({"messages": messages} if messages else
\* {"question": question}) (lines 98, 104)
Delegate(msgs, question) ==
    IF msgs # <<>> THEN ToolCall("llm_answer", None, None, FALSE, msgs, None)
    ELSE ToolCall("llm_answer", None, None, FALSE, <<>>, Some(question))

\* panda_task_status_tool.call({...}) (line 109)
StatusCall(tid, question) ==
    ToolCall("task_status", Some(tid), Some(question), TRUE, <<>>, None)

\* the call of lines 131-133; the system text is the constant of lines 113-124
EvidenceCall(question, evidence) ==
    ToolCall("llm_answer", None, None, FALSE,
             << ChatMessage(r_system, TextContent(<<"r", "u", "l", "e", "s">>)),
                ChatMessage(r_user, PromptContent(question, evidence)) >>,
             None)

\* the question taken from the messages (lines 89-95): the content of the
\* last user message that has one, stripped
RECURSIVE QuestionFrom(_)
QuestionFrom(msgs) ==
    IF msgs = <<>> THEN <<>>
    ELSE LET m == msgs[Len(msgs)] IN
         IF m.role = r_user /\ m.content.question # <<>>
         THEN Strip(m.content.question)
         ELSE QuestionFrom(SubSeq(msgs, 1, Len(msgs) - 1))

\* (mutation) the task-status tool is used whatever bypass_routing says
Route_IgnoreBypass(bypass, tid) ==
    IF tid = None THEN "delegate" ELSE "task_status"

\* lines 97-109: where the call goes
Route(bypass, tid) ==
    IF bypass THEN "delegate"
    ELSE IF tid = None THEN "delegate"
    ELSE "task_status"

AnswerQuestions ==
    { None, Some(<<>>), Some(<<"h", "e", "l", "l", "o">>), Some(<<" ", " ", "s", "t", "a", "t", "u", "s", " ", "o", "f", " ", "t", "a", "s", "k", " ", "7", " ">>),
      Some(<<"T", "a", "s", "k", "#", "1", "2", "?">>), Some(<<"s", "u", "b", "t", "a", "s", "k", " ", "5">>), Some(<<"t", "a", "s", "k", " ", "1", "2", "a", "b", ",", " ", "t", "a", "s", "k", "-", "3", "1">>) }

\* the message lists `_coerce_messages` gives
AnswerMessages ==
    { <<>>,
      << ChatMessage(r_user, TextContent(<<"w", "h", "a", "t", " ", "a", "b", "o", "u", "t", " ", "t", "a", "s", "k", " ", "9">>)) >>,
      << ChatMessage(r_user, TextContent(<<"h", "i">>)),
         ChatMessage(r_assistant, TextContent(<<"t", "a", "s", "k", " ", "4", " ", "i", "s", " ", "d", "o", "n", "e">>)) >>,
      << ChatMessage(r_user, TextContent(<<>>)) >> }

AnswerArguments ==
    [question : AnswerQuestions, bypass_routing : BOOLEAN, include_raw : BOOLEAN]

\* what the task-status tool returns: a mapping with evidence, one whose
\* evidence is longer than the limit, an error mapping without evidence
ToolResults ==
    { ToolResult("found", 900, Some(Evidence("task", 800))),
      ToolResult("large", 7100, Some(Evidence("jobs", 7000))),
      ToolResult("error", 200, None) }

NoAnswer == [type |-> "none", what |-> "none"]

AnswerIdle ==
    /\ apc = "idle"
    /\ a_arguments = [question |-> None, bypass_routing |-> FALSE, include_raw |-> FALSE]
    /\ a_question = <<>>
    /\ a_messages = <<>>
    /\ a_task_id = None
    /\ tool_result = None
    /\ a_calls = <<>>
    /\ a_out = NoAnswer

\* call() up to its first await (lines 80-109)
AnswerCall(args, msgs) ==
    /\ apc = "idle"
    /\ a_arguments' = args
    /\ a_messages' = msgs
    /\ \E q0 \in {Strip(GetOr(args.question, <<>>))} :
       \E q \in {IF q0 = <<>> /\ msgs # <<>> THEN QuestionFrom(msgs) ELSE q0} :
          IF q0 = <<>> /\ msgs = <<>>
          THEN /\ a_out' = [type |-> "exception", what |-> "ValueError"]
               /\ apc' = "done"
               /\ a_question' = q0
               /\ UNCHANGED <<a_task_id, a_calls>>
          ELSE /\ a_question' = q
               /\ UNCHANGED a_out
               /\ \E tid \in {_extract_task_id(q)} :
                    /\ a_task_id' = IF args.bypass_routing THEN None ELSE tid
                    /\ IF Route(args.bypass_routing, tid) = "delegate"
                       THEN /\ a_calls' = Append(a_calls, Delegate(msgs, q))
                            /\ apc' = "llm"
                       ELSE /\ a_calls' = Append(a_calls, StatusCall(tid[1], q))
                            /\ apc' = "status"
    /\ UNCHANGED tool_result

\* the task-status tool returns (lines 109-133)
StatusReturns(r) ==
    /\ apc = "status"
    /\ tool_result' = Some(r)
    /\ a_calls' = Append(a_calls, EvidenceCall(a_question, EvidenceOf(r)))
    /\ apc' = "llm"
    /\ UNCHANGED <<a_arguments, a_question, a_messages, a_task_id, a_out>>

\* the passthrough tool returns or raises (lines 98-100, 104-106, 134-135)
DelegateReturns(ok) ==
    /\ apc = "llm"
    /\ a_out' = IF ok THEN [type |-> "text", what |-> "delegated"]
                ELSE [type |-> "exception", what |-> "Exception"]
    /\ apc' = "done"
    /\ UNCHANGED <<a_arguments, a_question, a_messages, a_task_id, tool_result, a_calls>>

(***************************************************************************)
(* bamboo.tools.task_status: the wrapper around an underlying              *)
(* implementation of the task-status tool.                                 *)
(***************************************************************************)
\* the function names looked for after the tool object and `call` (line 152)
FallbackNames == <<"panda_task_status", "get_task_status", "task_status", "run", "handle">>

\* What a module has under a name: nothing, something that is not callable,
\* something callable.
AttrStates == {"absent", "noncallable", "callable"}

\* The modules that the import at lines 29-47 can find, by what they define:
\* tool_call is panda_task_status_tool.call ("absent" also when there is no
\* panda_task_status_tool), call the module-level call, names the fallbacks.
Modules ==
    [imported : {TRUE}, tool_call : AttrStates, call : AttrStates,
     names : [1..Len(FallbackNames) -> AttrStates]]

\* _real = None (line 18, 47)
NoModule ==
    [imported |-> FALSE, tool_call |-> "absent", call |-> "absent",
     names |-> [i \in 1..Len(FallbackNames) |-> "absent"]]

Fn(name, state) == [found |-> TRUE, name |-> name, callable |-> state = "callable"]

NoFn == [found |-> FALSE, name |-> "none", callable |-> FALSE]

\* (mutation) the module-level call is looked for before the tool object
Chosen_ModuleCallFirst(mod) ==
    IF mod.call = "callable" THEN Fn("call", mod.call)
    ELSE IF mod.tool_call # "absent"
    THEN Fn("panda_task_status_tool.call", mod.tool_call)
    ELSE IF \E i \in 1..Len(FallbackNames) : mod.names[i] = "callable"
    THEN LET i == CHOOSE k \in 1..Len(FallbackNames) :
                     /\ mod.names[k] = "callable"
                     /\ \A j \in 1..(k - 1) : mod.names[j] # "callable"
         IN Fn(FallbackNames[i], mod.names[i])
    ELSE NoFn

\* lines 138, 145, 152-153: the `fn` that call() takes from the module. The
\* tool object's call is taken when the attribute is there (hasattr), the
\* others only when callable.
Chosen(mod) ==
    IF mod.tool_call # "absent"
    THEN Fn("panda_task_status_tool.call", mod.tool_call)
    ELSE IF mod.call = "callable" THEN Fn("call", mod.call)
    ELSE IF \E i \in 1..Len(FallbackNames) : mod.names[i] = "callable"
    THEN LET i == CHOOSE k \in 1..Len(FallbackNames) :
                     /\ mod.names[k] = "callable"
                     /\ \A j \in 1..(k - 1) : mod.names[j] # "callable"
         IN Fn(FallbackNames[i], mod.names[i])
    ELSE NoFn

\* the arguments mappings of the calls explored
WrapperArguments == { [task_id |-> 7], [task_id |-> 8] }

NoArguments == [task_id |-> 0]

\* what the underlying implementation returns, and the exceptions it raises
UnderlyingResults == {"evidence", "text"}

UnderlyingExceptions == {"ValueError", "HTTPError"}

\* What call() ends in: a returned value (of the implementation, or one of
\* the two error mappings) or an exception that leaves call().
WrapperOut(kind, value, exception, args) ==
    [kind |-> kind, value |-> value, exception |-> exception, provided_arguments |-> args]

NoWrapperOut == WrapperOut("none", "none", "none", NoArguments)

\* lines 139-143, 147-151, 155-159: return await fn(arguments) and
\* return await asyncio.to_thread(fn, arguments)
Returned(r) == WrapperOut("value", r, "none", NoArguments)

\* line 162
RaisedMapping(e, args) == WrapperOut("error", "underlying task_status raised", e, args)

\* _stub_call (lines 64-70)
_stub_call(args) ==
    WrapperOut("error", "no underlying task_status implementation found", "none", args)

\* one invocation: what was invoked, with what, awaited or in a thread
Invocation(name, args, how) == [fn |-> name, arguments |-> args, how |-> how]

NotInvoked == [kind |-> "none", v |-> "none"]

\* The wrapper with the module `mod` imported, before a call.
WrapperStart(mod) ==
    /\ _real = mod
    /\ wpc = "idle"
    /\ w_arguments = NoArguments
    /\ invoked = <<>>
    /\ underlying = NotInvoked
    /\ w_out = NoWrapperOut

WrapperIdle == WrapperStart(NoModule)

\* _Tool.call (lines 134-166) up to its first suspension; co is
\* inspect.iscoroutinefunction(fn). Something that is not callable is no
\* coroutine function, and calling it in the thread raises TypeError, which
\* line 160 catches.
WrapperCall(args, co) ==
    /\ wpc = "idle"
    /\ w_arguments' = args
    /\ \E fn \in {IF _real.imported THEN Chosen(_real) ELSE NoFn} :
          IF fn.found
          THEN /\ invoked' = Append(invoked,
                      Invocation(fn.name, args,
                                 IF co /\ fn.callable THEN "await" ELSE "to_thread"))
               /\ IF fn.callable
                  THEN /\ wpc' = "running"
                       /\ UNCHANGED <<underlying, w_out>>
                  ELSE /\ wpc' = "done"
                       /\ underlying' = [kind |-> "raise", v |-> "TypeError"]
                       /\ w_out' = RaisedMapping("TypeError", args)
          ELSE /\ wpc' = "done"
               /\ w_out' = _stub_call(args)
               /\ UNCHANGED <<invoked, underlying>>
    /\ UNCHANGED _real

\* the underlying implementation returns r (lines 141, 143, 149, 151, 157, 159)
UnderlyingReturns(r) ==
    /\ wpc = "running"
    /\ underlying' = [kind |-> "return", v |-> r]
    /\ w_out' = Returned(r)
    /\ wpc' = "done"
    /\ UNCHANGED <<_real, w_arguments, invoked>>

\* (mutation) without the except clause of line 160
UnderlyingRaises_Uncaught(e) ==
    /\ wpc = "running"
    /\ underlying' = [kind |-> "raise", v |-> e]
    /\ w_out' = WrapperOut("raised", "none", e, NoArguments)
    /\ wpc' = "done"
    /\ UNCHANGED <<_real, w_arguments, invoked>>

\* the underlying implementation raises the Exception e (lines 160-162)
UnderlyingRaises(e) ==
    /\ wpc = "running"
    /\ underlying' = [kind |-> "raise", v |-> e]
    /\ w_out' = RaisedMapping(e, w_arguments)
    /\ wpc' = "done"
    /\ UNCHANGED <<_real, w_arguments, invoked>>

RestIdle == NormalizeIdle /\ AnswerIdle /\ WrapperIdle

(***************************************************************************)
(* The PanDA monitor's answers and the exceptions they become.             *)
(***************************************************************************)
\* What one `client.get` + raise_for_status + resp.json() + isinstance check
\* can end in.
\*   object    : 2xx, JSON body that is a dict
\*   transport : httpx transport error (connect, read, timeout, ...)
\*   status    : raise_for_status() raised httpx.HTTPStatusError
\*   notjson   : resp.json() raised json.JSONDecodeError (a ValueError)
\*   notobject : JSON body that is not a dict, ValueError raised at line 107
AttemptOutcomes == {"object", "transport", "status", "notjson", "notobject"}

FailureKinds == AttemptOutcomes \ {"object"}

\* httpx.HTTPStatusError
IsHTTPStatusError(kind) == kind = "status"

\* httpx.HTTPError, the base class of transport and status errors
IsHTTPError(kind) == kind \in {"transport", "status"}

\* ValueError (json.JSONDecodeError is a subclass)
IsValueError(kind) == kind \in {"notjson", "notobject"}

\* The values of payload["task"] in the JSON objects the monitor returns:
\* absent, empty, neither list nor object, a list of something else, an
\* object with and without a status, a list of an object.
TaskShapes ==
    { JNull, JList(<<>>), JDict(<<>>), JStr(<<"x">>), JList(<<JInt(5)>>),
      TaskObject(JStr(<<"r", "u", "n", "n", "i", "n", "g">>), JNull), TaskObject(JNull, JNull),
      JList(<<TaskObject(JStr(<<"r", "u", "n", "n", "i", "n", "g">>), JNull)>>) }

\* The values of payload["jobs"]: absent, an empty list, an object, a list
\* of something else, lists of job objects (the last with an error code that
\* is infinite).
JobsShapes ==
    { JNull, JList(<<>>), JDict(<< <<s_jobstatus, JStr(<<"f", "a", "i", "l", "e", "d">>)>> >>),
      JList(<<JInt(5)>>),
      JList(<<JobEntry("many_errors"), JobEntry("disk_full")>>),
      JList(<<JobEntry("inf_code")>>) }

\* The JSON objects returned: every value of "task" without jobs, and every
\* value of "jobs" with no task, with a string, with a list that holds no
\* object and with a task object.
Bodies ==
    { Payload(t, JNull, JNull, JNull) : t \in TaskShapes }
    \cup { Payload(t, JNull, JNull, j) :
             t \in { JNull, JStr(<<"x">>), JList(<<JInt(5)>>),
                     TaskObject(JStr(<<"r", "u", "n", "n", "i", "n", "g">>), JNull) },
             j \in JobsShapes }

NoBody == Payload(JNull, JNull, JNull, JNull)

\* the words of a question; the text is searched by _TASK_ID_RE
Questions == { <<>>, <<"status", "of", "task", "8">>, <<"hello">> }

TaskIds == {7}

IsDigits(tok) == tok \in {"7", "8"}

ToInt(tok) == IF tok = "7" THEN 7 ELSE IF tok = "8" THEN 8 ELSE 0

\* extract_task_id_from_text: first "task <digits>" of the text, else None
extract_task_id_from_text(text) ==
    LET hits == { i \in 1..(Len(text) - 1) :
                    text[i] = "task" /\ IsDigits(text[i + 1]) } IN
    IF hits = {} THEN None
    ELSE LET i == CHOOSE j \in hits : \A k \in hits : j <= k
         IN Some(ToInt(text[i + 1]))

\* (mutation) the question is searched first, the argument used after it
ResolveTaskId_QuestionFirst(args) ==
    IF extract_task_id_from_text(args.question) # None
    THEN extract_task_id_from_text(args.question)
    ELSE args.task_id

\* lines 311-312: the explicit task_id, else the one of the question
ResolveTaskId(args) ==
    IF args.task_id # None THEN args.task_id
    ELSE extract_task_id_from_text(args.question)

\* the task ids a call can come to: those passed and those of the questions
ResolvedIds ==
    TaskIds \cup { extract_task_id_from_text(q)[1] :
                     q \in { x \in Questions : extract_task_id_from_text(x) # None } }

ArgumentSets == [task_id : {Some(i) : i \in TaskIds} \cup {None},
                 question : Questions,
                 include_raw : BOOLEAN]

(***************************************************************************)
(* _fetch_task_metadata                                                    *)
(***************************************************************************)
NoExc == [kind |-> "none", attempt |-> 0]

NotFetched == [tag |-> "none", exc |-> NoExc, from |-> 0, body |-> NoBody]

\* (mutation) only httpx.HTTPError is caught
CaughtByFetch_OnlyHTTP(kind) == IsHTTPError(kind)

\* `except (httpx.HTTPError, ValueError) as exc` (line 109)
CaughtByFetch(kind) == IsHTTPError(kind) \/ IsValueError(kind)

\* `if attempt >= retries: raise` (line 111)
IsFinalAttempt(a, r) == a >= r

\* (mutation) a delay that grows linearly
BackoffDelay_Linear(b, a) == b * (a + 1)

\* `backoff * (2 ** attempt)` (line 114)
BackoffDelay(b, a) == b * Pow2(a)

\* `range(retries + 1)` still has an element after index a
HasNextAttempt(a, r) == a + 1 < r + 1

\* (mutation) the exception recorded before this attempt is raised
Reraised_Stale(exc, last) == last

\* the exception that leaves the except block at line 112: a bare `raise`
\* re-raises the exception being handled
Reraised(exc, last) == exc

(***************************************************************************)
(* PandaTaskStatusTool.call                                                *)
(***************************************************************************)
\* What call() gives the host: for a text, what it is about and its lines.
NoOut == [type |-> "none", what |-> "none", lines |-> <<>>]

TextOf(what, lines) == [type |-> "text", what |-> what, lines |-> lines]

Text(what) == TextOf(what, <<>>)

Escaped(what) == [type |-> "exception", what |-> what, lines |-> <<>>]

\* The except clauses of call (lines 320-326): what call() does with an
\* exception raised by _fetch_task_metadata.
CallHandles(kind) ==
    IF IsHTTPStatusError(kind) THEN Text("http_status_error")
    ELSE IF IsHTTPError(kind) THEN Text("fetch_failed")
    ELSE Escaped("ValueError")

\* One line of the text: the kind of line and the values formatted into it.
Line(kind, parts) == [kind |-> kind, parts |-> parts]

Blank == Line("blank", <<>>)

Url(u) == [t |-> "url", v |-> u]

\* characters in code point order
CodePoints ==
    <<"\t", "\n", "\r", " ", "+", "-", ".">> \o Digits \o UpperCase
    \o <<"_">> \o LowerCase

CodePoint == [c \in { CodePoints[i] : i \in 1..Len(CodePoints) } |->
                CHOOSE i \in 1..Len(CodePoints) : CodePoints[i] = c]

RECURSIVE StrLess(_, _)
\* a < b for two str
StrLess(a, b) ==
    IF b = <<>> THEN FALSE
    ELSE IF a = <<>> THEN TRUE
    ELSE IF Head(a) = Head(b) THEN StrLess(Tail(a), Tail(b))
    ELSE CodePoint[Head(a)] < CodePoint[Head(b)]

\* key=lambda kv: (-kv[1], kv[0]) (line 215)
CountBefore(counts, a, b) ==
    counts[a] > counts[b] \/ (counts[a] = counts[b] /\ StrLess(a, b))

RECURSIVE SortedKeys(_, _)
\* sorted(job_counts.items(), ...) (line 215), the keys of it
SortedKeys(counts, keys) ==
    IF keys = {} THEN <<>>
    ELSE LET k == CHOOSE x \in keys :
                     \A o \in keys \ {x} : CountBefore(counts, x, o)
         IN <<k>> \o SortedKeys(counts, keys \ {k})

\* _format_job_counts (lines 210-219)
_format_job_counts(counts) ==
    IF DOMAIN counts # {}
    THEN LET keys == SortedKeys(counts, DOMAIN counts) IN
         <<Line("job_counts", <<>>)>>
         \o [i \in 1..Len(keys) |->
               Line("job_count", <<JStr(keys[i]), JInt(counts[keys[i]])>>)]
    ELSE <<Line("job_counts_unavailable", <<>>)>>

ErrorCodesShown == 10

ErrorDiagsShown == 10

DiagShownMaxLen == 400

Occurrences(q, x) == Cardinality({ i \in 1..Len(q) : q[i] = x })

FirstAt(q, x) ==
    CHOOSE i \in 1..Len(q) : q[i] = x /\ \A j \in 1..(i - 1) : q[j] # x

RECURSIVE MostCommon(_, _)
\* Counter(error_codes).most_common(): by count, the largest first, equal
\* counts in the order of first occurrence (line 227)
MostCommon(q, vals) ==
    IF vals = {} THEN <<>>
    ELSE LET c == CHOOSE x \in vals : \A o \in vals \ {x} :
                     \/ Occurrences(q, x) > Occurrences(q, o)
                     \/ /\ Occurrences(q, x) = Occurrences(q, o)
                        /\ FirstAt(q, x) < FirstAt(q, o)
         IN <<c>> \o MostCommon(q, vals \ {c})

FirstN(q, n) == SubSeq(q, 1, IF Len(q) < n THEN Len(q) ELSE n)

\* d.replace("\n", " ").strip(), cut at 400 characters (lines 234-236)
ShownDiag(d) ==
    LET d1 == Strip([i \in 1..Len(d) |-> IF d[i] = "\n" THEN " " ELSE d[i]]) IN
    IF Len(d1) > DiagShownMaxLen
    THEN SubSeq(d1, 1, DiagShownMaxLen) \o <<".", ".", ".">>
    ELSE d1

\* _format_error_codes_and_diags (lines 222-239)
_format_error_codes_and_diags(codes, diags) ==
    (IF codes # <<>>
     THEN LET top == FirstN(MostCommon(codes, { codes[i] : i \in 1..Len(codes) }),
                            ErrorCodesShown) IN
          <<Line("error_codes", <<>>)>>
          \o [i \in 1..Len(top) |->
                Line("error_code", <<JInt(top[i]), JInt(Occurrences(codes, top[i]))>>)]
          \o <<Blank>>
     ELSE <<>>)
    \o
    (IF diags # <<>>
     THEN LET top == FirstN(diags, ErrorDiagsShown) IN
          <<Line("error_diags", <<>>)>>
          \o [i \in 1..Len(top) |-> Line("error_diag", <<JStr(ShownDiag(top[i]))>>)]
          \o <<Blank>>
     ELSE <<>>)

\* sorted(payload.keys()) (line 246)
PayloadKeys(p) ==
    (IF p.jobs # JNull THEN <<JStr(<<"j", "o", "b", "s">>)>> ELSE <<>>)
    \o (IF p.status # JNull THEN <<JStr(s_status)>> ELSE <<>>)
    \o (IF p.task # JNull THEN <<JStr(<<"t", "a", "s", "k">>)>> ELSE <<>>)
    \o (IF p.taskstatus # JNull THEN <<JStr(s_taskstatus)>> ELSE <<>>)

\* json.dumps(payload, indent=2), of which the payloads here are shorter
\* than the 5000 and 200000 characters kept (lines 249-251, 363)
JsonText(p) == [t |-> "json", v |-> p]

\* _format_payload_debug (lines 242-254) of a payload that is a dict
_format_payload_debug(p) ==
    << Line("payload_keys", PayloadKeys(p)),
       Line("raw_snippet", <<>>),
       Line("json", <<JsonText(p)>>) >>

\* (mutation) any list of jobs counts, an empty one too
has_jobs_AnyList(p) == p.jobs.t = "list"

\* has_task (line 337)
has_task(p) == Truthy(p.task) /\ p.task.t \in {"list", "dict"}

\* has_jobs (line 338)
has_jobs(p) == p.jobs.t = "list" /\ Len(p.jobs.v) > 0

\* lines 340-346: the text for a task that was not found
NotFoundText(tid, s, p) ==
    TextOf("not_found",
           <<Line("not_found", <<JInt(tid), Url(s.monitor_url)>>)>>
           \o _format_payload_debug(p))

\* (mutation) the debug dump whenever the status is unknown
ReportText_DebugAlways(s, p, include_raw) ==
    TextOf("report",
           << Line("task", <<JInt(s.task_id)>>),
              Line("status", <<JStr(s.status)>>),
              Line("monitor", <<Url(s.monitor_url)>>),
              Blank >>
           \o _format_job_counts(s.job_counts)
           \o <<Blank>>
           \o _format_error_codes_and_diags(s.error_codes, s.error_diags)
           \o (IF s.status = s_unknown
               THEN _format_payload_debug(p) ELSE <<>>)
           \o (IF include_raw
               THEN <<Line("raw_payload", <<>>), Line("json", <<JsonText(p)>>)>>
               ELSE <<>>))

\* lines 348-365: the report
ReportText(s, p, include_raw) ==
    TextOf("report",
           << Line("task", <<JInt(s.task_id)>>),
              Line("status", <<JStr(s.status)>>),
              Line("monitor", <<Url(s.monitor_url)>>),
              Blank >>
           \o _format_job_counts(s.job_counts)
           \o <<Blank>>
           \o _format_error_codes_and_diags(s.error_codes, s.error_diags)
           \o (IF ~include_raw /\ s.status = s_unknown
               THEN _format_payload_debug(p) ELSE <<>>)
           \o (IF include_raw
               THEN <<Line("raw_payload", <<>>), Line("json", <<JsonText(p)>>)>>
               ELSE <<>>))

\* lines 328-365 with the summary s in hand
RenderSummary(tid, s, p, include_raw) ==
    IF s.raised # "none" THEN Escaped(s.raised)
    ELSE IF ~has_task(p) /\ ~has_jobs(p) THEN NotFoundText(tid, s, p)
    ELSE ReportText(s, p, include_raw)

\* lines 328-365: summary and rendering of a fetched payload
Render(tid, p, include_raw) ==
    RenderSummary(tid, _summarize_task(tid, p), p, include_raw)

\* Render, tabulated over the calls explored
Rendered ==
    [tid \in ResolvedIds, p \in Bodies, include_raw \in BOOLEAN |->
        Render(tid, p, include_raw)]

\* The tool call before it starts, under the configuration (r, b).
FetchStart(r, b, dbg) ==
    /\ tpc = "idle"
    /\ panda_debug = dbg
    /\ arguments = [task_id |-> None, question |-> <<>>, include_raw |-> FALSE]
    /\ task_id = None
    /\ retries = r
    /\ backoff = b
    /\ attempt = 0
    /\ last_exc = NoExc
    /\ fetched = NotFetched
    /\ out = NoOut
    /\ log = <<>>
    /\ waits = <<>>
    /\ inflight = 0

\* call() up to its first suspension: lines 304-319 and 92-103
\* (retries >= 0, so range(retries + 1) is not empty).
Call(args) ==
    /\ tpc = "idle"
    /\ arguments' = args
    /\ LET tid == ResolveTaskId(args) IN
       /\ task_id' = tid
       /\ IF tid = None
          THEN /\ out' = Text("no_task_id")
               /\ tpc' = "done"
               /\ UNCHANGED <<attempt, inflight>>
          ELSE /\ attempt' = 0
               /\ inflight' = inflight + 1
               /\ tpc' = "get"
               /\ UNCHANGED out
    /\ UNCHANGED <<retries, backoff, last_exc, fetched, log, waits, panda_debug>>

\* The HTTP request of the current attempt ends (lines 103-114), and with it
\* either the whole call (lines 320-365) or the attempt, which then sleeps.
GetCompletes(outcome, body) ==
    /\ tpc = "get"
    /\ inflight' = inflight - 1
    /\ log' = Append(log, outcome)
    /\ IF outcome = "object"
       THEN /\ fetched' = [tag |-> "return", exc |-> NoExc,
                           from |-> attempt + 1, body |-> body]
            /\ out' = Rendered[task_id[1], body, arguments.include_raw \/ panda_debug]
            /\ tpc' = "done"
            /\ UNCHANGED <<last_exc, waits>>
       ELSE LET exc == [kind |-> outcome, attempt |-> attempt + 1] IN
            IF ~CaughtByFetch(outcome)
            THEN /\ fetched' = [tag |-> "raise", exc |-> exc,
                                from |-> 0, body |-> NoBody]
                 /\ out' = CallHandles(outcome)
                 /\ tpc' = "done"
                 /\ UNCHANGED <<last_exc, waits>>
            ELSE /\ last_exc' = exc
                 /\ IF IsFinalAttempt(attempt, retries)
                    THEN /\ fetched' = [tag |-> "raise",
                                        exc |-> Reraised(exc, last_exc),
                                        from |-> 0, body |-> NoBody]
                         /\ out' = CallHandles(Reraised(exc, last_exc).kind)
                         /\ tpc' = "done"
                         /\ UNCHANGED waits
                    ELSE /\ waits' = Append(waits, BackoffDelay(backoff, attempt))
                         /\ tpc' = "sleep"
                         /\ UNCHANGED <<fetched, out>>
    /\ UNCHANGED <<arguments, task_id, retries, backoff, attempt, panda_debug>>

\* (mutation) a retry loop that never advances its attempt counter
Wake_SameAttempt ==
    /\ tpc = "sleep"
    /\ inflight' = inflight + 1
    /\ tpc' = "get"
    /\ UNCHANGED <<arguments, task_id, retries, backoff, attempt, last_exc,
                   fetched, out, log, waits, panda_debug>>

\* asyncio.sleep returns (line 114): the loop goes on to its next attempt,
\* or, with none left, to lines 116-117.
Wake ==
    /\ tpc = "sleep"
    /\ IF HasNextAttempt(attempt, retries)
       THEN /\ attempt' = attempt + 1
            /\ inflight' = inflight + 1
            /\ tpc' = "get"
            /\ UNCHANGED <<fetched, out>>
       ELSE /\ fetched' = [tag |-> "raise", exc |-> last_exc,
                           from |-> 0, body |-> NoBody]
            /\ out' = CallHandles(last_exc.kind)
            /\ tpc' = "done"
            /\ UNCHANGED <<attempt, inflight>>
    /\ UNCHANGED <<arguments, task_id, retries, backoff, last_exc, log, waits, panda_debug>>

(***************************************************************************)
(* MistralLLMClient                                                        *)
(***************************************************************************)
Calls == 1..NumCalls

\* The client instances of the process. Their model_spec and the
\* environment are fixed when the process starts:
\*   ready   : model set, api key resolvable
\*   nokey   : model set, no api key resolvable from the environment
\*   nomodel : model_spec.model is empty
Clients == {"ready", "nokey", "nomodel"}

NoClient == "none"

\* self.model_spec.model
model(k) == IF k = "nomodel" THEN "" ELSE "mistral-small-latest"

\* os.getenv(...) at lines 44-48 ("" stands for an unset variable)
api_key(k) == IF k = "nokey" THEN "" ELSE "secret"

\* (mutation) the key check is skipped
KeyResolvable_Always(k) == TRUE

\* `if not api_key` is false (line 49)
KeyResolvable(k) == api_key(k) # ""

\* (mutation) the gate admits a caller when no slot is free
GateOpen_OffByOne(s) == s >= 0

\* asyncio.Semaphore: a slot is free
GateOpen(s) == s > 0

\* (mutation) one iteration too many
LoopExhausted_OffByOne(n, t) == n > t

\* `for _ in range(tries)` has no iteration left after n iterations
LoopExhausted(n, t) == n >= t

\* (mutation) a timeout handled like any other exception
CaughtAsTimeout_Never(o) == FALSE

\* `except asyncio.TimeoutError` (line 148)
CaughtAsTimeout(o) == o = "timeout"

\* What awaiting chat.complete_async and reading the response can end in:
\*   ok      : a response whose choices[0].message.content is readable
\*   error   : an Exception that is no asyncio.TimeoutError, raised by the
\*             SDK or by reading the response (lines 128-146)
\*   timeout : asyncio.TimeoutError
ProviderOutcomes == {"ok", "error", "timeout"}

\* What awaiting __aenter__ can end in.
AenterOutcomes == {"ok", "error", "timeout"}

GNoErr == [kind |-> "none", attempt |-> 0]

NoResult == [tag |-> "none", cause |-> GNoErr, from |-> 0]

\* LLMResponse(...) built from the response of attempt n (line 146)
Response(n) == [tag |-> "LLMResponse", cause |-> GNoErr, from |-> n]

\* an exception class raised by generate, `from` its cause
Raised(cls, cause) == [tag |-> cls, cause |-> cause, from |-> 0]

\* The generate side before any call, under the configuration (l, t).
GenStart(l, t) ==
    /\ limit = l
    /\ sem = l
    /\ tries = t
    /\ _client = [k \in Clients |-> 0]
    /\ _lock = [k \in Clients |-> 0]
    /\ sessions = <<>>
    /\ closing = [k \in Clients |-> 0]
    /\ closes = 0
    /\ gpc = [c \in Calls |-> "idle"]
    /\ self = [c \in Calls |-> NoClient]
    /\ iter = [c \in Calls |-> 0]
    /\ gbackoff = [c \in Calls |-> MistralBackoffDefault]
    /\ last_err = [c \in Calls |-> GNoErr]
    /\ client = [c \in Calls |-> 0]
    /\ entering = [c \in Calls |-> 0]
    /\ result = [c \in Calls |-> NoResult]
    /\ gwaits = [c \in Calls |-> <<>>]
    /\ timedout = [c \in Calls |-> 0]

\* ---- the ways a run of generate reaches its next suspension or its end;
\* ---- s is the value of the gate while the call holds its slot

\* (mutation) the slot of the gate is kept when the call ends
GenEnd_KeepSlot(c, res, s) ==
    /\ sem' = s
    /\ gpc' = [gpc EXCEPT ![c] = "done"]
    /\ result' = [result EXCEPT ![c] = res]
    /\ last_err' = [last_err EXCEPT ![c] = GNoErr]
    /\ client' = [client EXCEPT ![c] = 0]
    /\ UNCHANGED gwaits

\* leave `async with _MISTRAL_CONCURRENCY` (line 105) with result res; the
\* locals of the coroutine are gone
GenEnd(c, res, s) ==
    /\ sem' = s + 1
    /\ gpc' = [gpc EXCEPT ![c] = "done"]
    /\ result' = [result EXCEPT ![c] = res]
    /\ last_err' = [last_err EXCEPT ![c] = GNoErr]
    /\ client' = [client EXCEPT ![c] = 0]
    /\ UNCHANGED gwaits

\* `except Exception` (lines 150-152): record the error of iteration n and
\* suspend in asyncio.sleep(backoff)
GenFailed(c, kind, n, s) ==
    /\ last_err' = [last_err EXCEPT ![c] = [kind |-> kind, attempt |-> n]]
    /\ gwaits' = [gwaits EXCEPT ![c] = Append(@, gbackoff[c])]
    /\ gpc' = [gpc EXCEPT ![c] = "sleep"]
    /\ sem' = s
    /\ UNCHANGED <<result, client>>

\* lines 112-128: _get_client returned session sid; suspend in
\* client.chat.complete_async
GenRequest(c, sid, s) ==
    /\ client' = [client EXCEPT ![c] = sid]
    /\ gpc' = [gpc EXCEPT ![c] = "net"]
    /\ sem' = s
    /\ UNCHANGED <<result, last_err, gwaits>>

\* suspend at `where` with nothing else changed
GenSuspend(c, where, s) ==
    /\ gpc' = [gpc EXCEPT ![c] = where]
    /\ sem' = s
    /\ UNCHANGED <<result, last_err, gwaits, client>>

\* (mutation) no second check of self._client once the lock is held
LockedInit_NoDoubleCheck(c, k, n, s) ==
    /\ sessions' = Append(sessions, [owner |-> k, state |-> "constructed"])
    /\ _client' = [_client EXCEPT ![k] = Len(sessions) + 1]
    /\ _lock' = [_lock EXCEPT ![k] = c]
    /\ entering' = [entering EXCEPT ![c] = Len(sessions) + 1]
    /\ GenSuspend(c, "aenter", s)

\* _get_client inside `async with self._lock` (lines 53-63), in iteration n
LockedInit(c, k, n, s) ==
    IF _client[k] = 0
    THEN /\ sessions' = Append(sessions, [owner |-> k, state |-> "constructed"])
         /\ _client' = [_client EXCEPT ![k] = Len(sessions) + 1]
         /\ _lock' = [_lock EXCEPT ![k] = c]
         /\ entering' = [entering EXCEPT ![c] = Len(sessions) + 1]
         /\ GenSuspend(c, "aenter", s)
    ELSE /\ GenRequest(c, _client[k], s)
         /\ UNCHANGED <<sessVars, entering>>

\* _get_client from its first line (lines 41-52), in iteration n
GetClient(c, k, n, s) ==
    IF _client[k] # 0
    THEN GenRequest(c, _client[k], s) /\ UNCHANGED <<sessVars, entering>>
    ELSE IF ~KeyResolvable(k)
    THEN GenFailed(c, "LLMConfigError", n, s) /\ UNCHANGED <<sessVars, entering>>
    ELSE IF _lock[k] # 0
    THEN GenSuspend(c, "lockwait", s) /\ UNCHANGED <<sessVars, entering>>
    ELSE LockedInit(c, k, n, s)

\* the for loop of generate from its head (line 110), or line 155
RunLoop(c, k, s) ==
    IF LoopExhausted(iter[c], tries)
    THEN /\ GenEnd(c, Raised("LLMProviderError", last_err[c]), s)
         /\ UNCHANGED <<iter, sessVars, entering>>
    ELSE /\ iter' = [iter EXCEPT ![c] = @ + 1]
         /\ GetClient(c, k, iter[c] + 1, s)

\* generate is called on instance k (lines 99-105); calls start in the
\* order of their numbers
GenerateStart(c, k) ==
    /\ gpc[c] = "idle"
    /\ c > 1 => gpc[c - 1] # "idle"
    /\ self' = [self EXCEPT ![c] = k]
    /\ IF model(k) = ""
       THEN /\ gpc' = [gpc EXCEPT ![c] = "done"]
            /\ result' = [result EXCEPT ![c] = Raised("LLMConfigError", GNoErr)]
            /\ UNCHANGED <<sem, iter, sessVars, entering, last_err, gwaits,
                           client>>
       ELSE IF GateOpen(sem)
       THEN RunLoop(c, k, sem - 1)
       ELSE /\ GenSuspend(c, "gate", sem)
            /\ UNCHANGED <<iter, sessVars, entering>>
    /\ UNCHANGED <<envVars, closing, closes, gbackoff, timedout>>

\* a caller blocked at the gate gets a slot
GateAcquired(c) ==
    /\ gpc[c] = "gate"
    /\ GateOpen(sem)
    /\ RunLoop(c, self[c], sem - 1)
    /\ UNCHANGED <<envVars, closing, closes, self, gbackoff, timedout>>

\* a caller blocked on self._lock gets it (line 52)
LockAcquired(c) ==
    /\ gpc[c] = "lockwait"
    /\ _lock[self[c]] = 0
    /\ LockedInit(c, self[c], iter[c], sem)
    /\ UNCHANGED <<envVars, closing, closes, self, iter, gbackoff, timedout>>

SetState(ss, sid, st) == [ss EXCEPT ![sid].state = st]

\* `await self._client.__aenter__()` ends (lines 61-63, then 112-155)
AenterCompletes(c, o) ==
    /\ gpc[c] = "aenter"
    /\ LET k == self[c]
           sid == entering[c] IN
       /\ _lock' = [_lock EXCEPT ![k] = 0]
       /\ entering' = [entering EXCEPT ![c] = 0]
       /\ UNCHANGED _client
       /\ timedout' = [timedout EXCEPT ![c] = IF o = "timeout" THEN iter[c] ELSE @]
       /\ IF o = "ok"
          THEN /\ sessions' = IF sessions[sid].state = "constructed"
                              THEN SetState(sessions, sid, "entered")
                              ELSE sessions
               /\ IF _client[k] = 0
                  THEN GenFailed(c, "AttributeError", iter[c], sem)
                  ELSE GenRequest(c, _client[k], sem)
          ELSE /\ UNCHANGED sessions
               /\ IF CaughtAsTimeout(o)
                  THEN GenEnd(c, Raised("LLMTimeoutError", GNoErr), sem)
                  ELSE GenFailed(c, "aenter_error", iter[c], sem)
    /\ UNCHANGED <<envVars, closing, closes, self, iter, gbackoff>>

\* `await client.chat.complete_async(**kwargs)` ends (lines 128-152)
ProviderReturns(c, o) ==
    /\ gpc[c] = "net"
    /\ timedout' = [timedout EXCEPT ![c] = IF o = "timeout" THEN iter[c] ELSE @]
    /\ IF o = "ok"
       THEN GenEnd(c, Response(iter[c]), sem)
       ELSE IF CaughtAsTimeout(o)
       THEN GenEnd(c, Raised("LLMTimeoutError", GNoErr), sem)
       ELSE GenFailed(c, "provider_error", iter[c], sem)
    /\ UNCHANGED <<envVars, sessVars, closing, closes, self, iter, gbackoff, entering>>

\* `await asyncio.sleep(backoff)` ends; `backoff *= 2` (lines 152-153) and
\* the loop goes on
SleepReturns(c) ==
    /\ gpc[c] = "sleep"
    /\ gbackoff' = [gbackoff EXCEPT ![c] = 2 * @]
    /\ RunLoop(c, self[c], sem)
    /\ UNCHANGED <<envVars, closing, closes, self, timedout>>

\* the task running generate is cancelled while suspended: CancelledError
\* is no Exception, so it leaves generate through the context managers
Cancel(c) ==
    /\ gpc[c] \in {"gate", "lockwait", "aenter", "net", "sleep"}
    /\ gpc' = [gpc EXCEPT ![c] = "done"]
    /\ result' = [result EXCEPT ![c] = Raised("CancelledError", GNoErr)]
    /\ sem' = IF gpc[c] = "gate" THEN sem ELSE sem + 1
    /\ IF gpc[c] = "aenter"
       THEN /\ _lock' = [_lock EXCEPT ![self[c]] = 0]
            /\ entering' = [entering EXCEPT ![c] = 0]
       ELSE UNCHANGED <<_lock, entering>>
    /\ last_err' = [last_err EXCEPT ![c] = GNoErr]
    /\ client' = [client EXCEPT ![c] = 0]
    /\ iter' = [iter EXCEPT ![c] = 0]
    /\ gwaits' = [gwaits EXCEPT ![c] = <<>>]
    /\ gbackoff' = [gbackoff EXCEPT ![c] = MistralBackoffDefault]
    /\ UNCHANGED <<envVars, _client, sessions, closing, closes, self, timedout>>

\* close() on an initialised instance, up to its await (lines 28-29). The
\* host closes its instances when it shuts down: it has dispatched its calls
\* by then, and they may still be running.
CloseStart(k) ==
    /\ closes < MaxCloses
    /\ \A c \in Calls : gpc[c] # "idle"
    /\ _client[k] # 0
    /\ closing[k] = 0
    /\ closes' = closes + 1
    /\ closing' = [closing EXCEPT ![k] = _client[k]]
    /\ sessions' = SetState(sessions, _client[k], "exiting")
    /\ UNCHANGED <<envVars, sem, _client, _lock, gpc, self, iter, gbackoff,
                   last_err, client, entering, result, gwaits, timedout>>

\* __aexit__ returns; self._client = None (line 30)
CloseFinish(k) ==
    /\ closing[k] # 0
    /\ closing' = [closing EXCEPT ![k] = 0]
    /\ sessions' = SetState(sessions, closing[k], "exited")
    /\ _client' = [_client EXCEPT ![k] = 0]
    /\ UNCHANGED <<envVars, sem, _lock, closes, gpc, self, iter, gbackoff,
                   last_err, client, entering, result, gwaits, timedout>>

InitGen ==
    /\ \E l \in 1..MaxLimit, t \in 0..MaxTries : GenStart(l, t)
    /\ FetchStart(0, PandaBackoffDefault, FALSE)
    /\ ProcessJobsIdle
    /\ SummarizeIdle
    /\ RestIdle

NextGen ==
    \/ \E c \in Calls, k \in Clients : GenerateStart(c, k) /\ UNCHANGED <<fetchVars, pjVars, sumVars, restVars>>
    \/ \E c \in Calls : GateAcquired(c) /\ UNCHANGED <<fetchVars, pjVars, sumVars, restVars>>
    \/ \E c \in Calls : LockAcquired(c) /\ UNCHANGED <<fetchVars, pjVars, sumVars, restVars>>
    \/ \E c \in Calls, o \in AenterOutcomes :
          AenterCompletes(c, o) /\ UNCHANGED <<fetchVars, pjVars, sumVars, restVars>>
    \/ \E c \in Calls, o \in ProviderOutcomes :
          ProviderReturns(c, o) /\ UNCHANGED <<fetchVars, pjVars, sumVars, restVars>>
    \/ \E c \in Calls : SleepReturns(c) /\ UNCHANGED <<fetchVars, pjVars, sumVars, restVars>>
    \/ \E c \in Calls : Cancel(c) /\ UNCHANGED <<fetchVars, pjVars, sumVars, restVars>>
    \/ \E k \in Clients : CloseStart(k) /\ UNCHANGED <<fetchVars, pjVars, sumVars, restVars>>
    \/ \E k \in Clients : CloseFinish(k) /\ UNCHANGED <<fetchVars, pjVars, sumVars, restVars>>

SpecGen == InitGen /\ [][NextGen]_vars

InitFetch ==
    /\ \E r \in 0..MaxRetries,
          b \in {PandaBackoffDefault, 2 * PandaBackoffDefault},
          dbg \in BOOLEAN :
          FetchStart(r, b, dbg)
    /\ GenStart(1, 0)
    /\ ProcessJobsIdle
    /\ SummarizeIdle
    /\ RestIdle

NextFetch ==
    \/ \E args \in ArgumentSets : Call(args) /\ UNCHANGED <<genVars, pjVars, sumVars, restVars>>
    \/ \E o \in AttemptOutcomes, b \in Bodies :
          /\ (o # "object" => b = NoBody)
          /\ GetCompletes(o, b)
          /\ UNCHANGED <<genVars, pjVars, sumVars, restVars>>
    \/ Wake /\ UNCHANGED <<genVars, pjVars, sumVars, restVars>>

SpecFetch == InitFetch /\ [][NextFetch]_vars

InitJobs ==
    /\ ProcessJobsStart
    /\ FetchStart(0, PandaBackoffDefault, FALSE)
    /\ GenStart(1, 0)
    /\ SummarizeIdle
    /\ RestIdle

NextJobs ==
    \/ \E e \in JobEntryIds : Iterate(e) /\ UNCHANGED <<fetchVars, genVars, sumVars, restVars>>
    \/ Return /\ UNCHANGED <<fetchVars, genVars, sumVars, restVars>>

SpecJobs == InitJobs /\ [][NextJobs]_vars

InitSummary ==
    /\ SummarizeStart
    /\ FetchStart(0, PandaBackoffDefault, FALSE)
    /\ GenStart(1, 0)
    /\ ProcessJobsIdle
    /\ RestIdle

NextSummary == Summarize /\ UNCHANGED <<fetchVars, genVars, pjVars, restVars>>

SpecSummary == InitSummary /\ [][NextSummary]_vars

\* the four components above, not running
CoreIdle ==
    /\ FetchStart(0, PandaBackoffDefault, FALSE)
    /\ GenStart(1, 0)
    /\ ProcessJobsIdle
    /\ SummarizeIdle

InitNormalize == NormalizeStart /\ CoreIdle /\ AnswerIdle /\ WrapperIdle

NextNormalize ==
    \/ NormalizeNext /\ UNCHANGED <<fetchVars, genVars, pjVars, sumVars, ansVars, wrapVars>>
    \/ NormalizeReturn /\ UNCHANGED <<fetchVars, genVars, pjVars, sumVars, ansVars, wrapVars>>

SpecNormalize == InitNormalize /\ [][NextNormalize]_vars

InitAnswer == AnswerIdle /\ CoreIdle /\ NormalizeIdle /\ WrapperIdle

NextWrapper ==
    \/ \E args \in WrapperArguments, co \in BOOLEAN :
          WrapperCall(args, co) /\ UNCHANGED <<fetchVars, genVars, pjVars, sumVars, normVars, ansVars>>
    \/ \E r \in UnderlyingResults :
          UnderlyingReturns(r) /\ UNCHANGED <<fetchVars, genVars, pjVars, sumVars, normVars, ansVars>>
    \/ \E e \in UnderlyingExceptions :
          UnderlyingRaises(e) /\ UNCHANGED <<fetchVars, genVars, pjVars, sumVars, normVars, ansVars>>

InitWrapper ==
    /\ \E mod \in Modules \cup {NoModule} : WrapperStart(mod)
    /\ CoreIdle /\ NormalizeIdle /\ AnswerIdle

SpecWrapper == InitWrapper /\ [][NextWrapper]_vars

NextAnswer ==
    \/ \E args \in AnswerArguments, msgs \in AnswerMessages :
          AnswerCall(args, msgs) /\ UNCHANGED <<fetchVars, genVars, pjVars, sumVars, normVars, wrapVars>>
    \/ \E r \in ToolResults :
          StatusReturns(r) /\ UNCHANGED <<fetchVars, genVars, pjVars, sumVars, normVars, wrapVars>>
    \/ \E ok \in BOOLEAN :
          DelegateReturns(ok) /\ UNCHANGED <<fetchVars, genVars, pjVars, sumVars, normVars, wrapVars>>

SpecAnswer == InitAnswer /\ [][NextAnswer]_vars

(***************************************************************************)
(* Claims about PandaTaskStatusTool.call and _fetch_task_metadata          *)
(***************************************************************************)
AllAttemptsFailed ==
    /\ Len(log) = retries + 1
    /\ \A i \in 1..Len(log) : log[i] \in FailureKinds

\* C3: whatever the metadata fetch ends in (success, HTTP status error,
\* transport error, body that is not JSON, JSON that is not an object), the
\* finished call has handed the host a text content block and no exception
\* has escaped it.
C3_CallAlwaysReturnsText ==
    tpc = "done" => out.type = "text"

\* C4: at most retries + 1 HTTP attempts are made; a successful attempt is
\* the last attempt of the call, and the call returns the payload of exactly
\* that attempt.
C4_AtMostRetriesPlusOneAttempts ==
    /\ Len(log) <= retries + 1
    /\ inflight + Len(log) <= retries + 1
    /\ \A i \in 1..Len(log) :
          log[i] = "object" =>
             /\ i = Len(log)
             /\ inflight = 0
             /\ tpc = "done"
             /\ fetched.tag = "return"
             /\ fetched.from = i

C4_Witness ==
    /\ retries >= 2
    /\ tpc = "done"
    /\ Len(log) = 2
    /\ log[1] \in FailureKinds
    /\ log[2] = "object"
    /\ fetched.tag = "return"

\* C5: when every one of the retries + 1 attempts has failed, the fetch ends
\* by raising, and the exception raised is the one of the final attempt.
C5_LastErrorPropagates ==
    (tpc = "done" /\ AllAttemptsFailed) =>
        /\ fetched.tag = "raise"
        /\ fetched.exc.attempt = retries + 1
        /\ fetched.exc.kind = log[retries + 1]

C5_Witness ==
    /\ retries >= 1
    /\ tpc = "done"
    /\ AllAttemptsFailed
    /\ log[retries + 1] # log[retries]
    /\ fetched.tag = "raise"

\* C6: a transport error, an HTTP non-success status and a body that is not
\* an object each count as a failed attempt that is retried while attempts
\* remain: after such a failure on attempt i < retries + 1 the call goes on
\* (it sleeps or makes attempt i + 1), and the fetch raises only once
\* retries + 1 attempts have been made.
C6_EveryFailureKindIsRetried ==
    /\ \A i \in 1..Len(log) :
          (log[i] \in {"transport", "status", "notobject", "notjson"}
             /\ i < retries + 1)
          => \/ Len(log) > i
             \/ (Len(log) = i /\ tpc \in {"sleep", "get"}
                   /\ fetched.tag = "none")
    /\ fetched.tag = "raise" => Len(log) = retries + 1

C6_Witness ==
    /\ retries = 3
    /\ tpc = "done"
    /\ fetched.tag = "raise"
    /\ log[1] = "transport"
    /\ log[2] = "status"
    /\ log[3] = "notobject"

\* C7: attempts are sequential and separated by the backoff: never two
\* requests in flight; attempt k + 1 is made only after attempt k has failed
\* and its wait is over; the i-th wait lasts backoff * 2^(i-1); no wait
\* follows the final failed attempt.
C7_SequentialWithBackoff ==
    /\ inflight <= 1
    /\ inflight = 1 <=> tpc = "get"
    /\ tpc = "get" => /\ Len(waits) = Len(log)
                      /\ attempt = Len(log)
                      /\ \A i \in 1..Len(log) : log[i] \in FailureKinds
    /\ tpc = "sleep" => Len(waits) = Len(log)
    /\ \A i \in 1..Len(waits) : waits[i] = backoff * Pow2(i - 1)
    /\ Len(waits) <= retries
    /\ (tpc = "done" /\ fetched.tag = "raise") => Len(waits) = Len(log) - 1

C7_Witness ==
    /\ retries = 3
    /\ tpc = "done"
    /\ fetched.tag = "raise"
    /\ waits = <<backoff, 2 * backoff, 4 * backoff>>

(***************************************************************************)
(* Claims about MistralLLMClient.generate                                  *)
(***************************************************************************)
\* the calls that hold a slot of _MISTRAL_CONCURRENCY
InsideGate == { c \in Calls : gpc[c] \in {"lockwait", "aenter", "net", "sleep"} }

\* C1: a generate call on an instance with no resolvable api key, or with an
\* empty model, fails at once with LLMConfigError: once it runs it makes no
\* second iteration, performs no backoff sleep, and the error it ends with is
\* LLMConfigError, not LLMProviderError.
C1_ConfigErrorFailsAtOnce ==
    \A c \in Calls :
        (gpc[c] # "idle" /\ (api_key(self[c]) = "" \/ model(self[c]) = ""))
        => /\ gpc[c] \in {"gate", "done"}
           /\ gwaits[c] = <<>>
           /\ iter[c] <= 1
           /\ gpc[c] = "done"
                 => result[c].tag \in {"LLMConfigError", "CancelledError"}

\* C2: whatever the retry count, a generate call on an instance with no
\* credential makes no network attempt: no session is ever constructed or
\* entered for the instance, and the call never holds a session nor awaits
\* chat.complete_async.
C2_NoCredentialNoNetwork ==
    \A k \in Clients :
        api_key(k) = "" =>
           /\ _client[k] = 0
           /\ \A i \in 1..Len(sessions) : sessions[i].owner # k
           /\ \A c \in Calls :
                 self[c] = k =>
                    /\ client[c] = 0
                    /\ entering[c] = 0
                    /\ gpc[c] \notin {"lockwait", "aenter", "net"}

C2_Witness ==
    \E c \in Calls :
        /\ self[c] = "nokey"
        /\ gpc[c] = "done"
        /\ iter[c] >= 2
        /\ result[c].tag = "LLMProviderError"

\* C8: an attempt that ends in asyncio.TimeoutError ends the call: whatever
\* the number of the attempt, the call is over with LLMTimeoutError, no
\* later iteration was started and no sleep followed the timeout (the sleeps
\* made are those of the earlier failed attempts).
C8_TimeoutIsNotRetried ==
    \A c \in Calls :
        timedout[c] # 0 =>
           /\ gpc[c] = "done"
           /\ result[c].tag = "LLMTimeoutError"
           /\ iter[c] = timedout[c]
           /\ Len(gwaits[c]) = timedout[c] - 1

C8_Witness ==
    \E c \in Calls :
        /\ timedout[c] = 2
        /\ result[c].tag = "LLMTimeoutError"
        /\ Len(gwaits[c]) = 1

\* C9: generate starts at most `tries` attempts; a successful attempt is the
\* last one and the call ends with its response; a call that ends without a
\* response, a timeout or a cancellation has made all `tries` attempts and
\* raises LLMProviderError whose cause is the error of attempt `tries`.
C9_AtMostTriesAttempts ==
    \A c \in Calls :
        /\ iter[c] <= tries
        /\ result[c].tag = "LLMResponse"
              => /\ gpc[c] = "done"
                 /\ iter[c] >= 1
                 /\ result[c].from = iter[c]
        /\ (gpc[c] = "done" /\ model(self[c]) # "" /\ timedout[c] = 0
              /\ result[c].tag \notin {"LLMResponse", "CancelledError"})
              => /\ result[c].tag = "LLMProviderError"
                 /\ iter[c] = tries
                 /\ tries > 0 => /\ result[c].cause.attempt = tries
                                 /\ result[c].cause.kind # "none"

C9_Witness ==
    \E c, d \in Calls :
        /\ tries = 2
        /\ result[c].tag = "LLMProviderError"
        /\ result[c].cause = [kind |-> "provider_error", attempt |-> 2]
        /\ result[d].tag = "LLMResponse"
        /\ result[d].from = 2

\* C10: the calls between acquiring and releasing _MISTRAL_CONCURRENCY, on
\* whatever instance, are never more than the configured limit, and the free
\* slots are the limit less those calls; with limit 1 no two calls are in a
\* network-bound phase together, and a call starts its first attempt only
\* when every other call that started one has left the gate.
C10_GateBoundsCalls ==
    /\ Cardinality(InsideGate) <= limit
    /\ sem = limit - Cardinality(InsideGate)
    /\ limit = 1 =>
          \A c, d \in Calls :
             (c # d /\ iter[c] >= 1 /\ gpc[c] # "done")
             => /\ gpc[d] \notin {"lockwait", "aenter", "net", "sleep"}
                /\ (iter[d] = 0 \/ gpc[d] = "done")

C10_Witness ==
    \E c, d \in Calls :
        /\ limit = 1
        /\ self[c] # self[d]
        /\ gpc[c] = "net"
        /\ gpc[d] = "gate"

\* the sessions constructed for instance k
SessionsOf(k) == { i \in 1..Len(sessions) : sessions[i].owner = k }

\* C11: however many generate calls make the first use of one instance
\* together, one session is constructed and entered for it: an instance has
\* at most one session that close() has not released, a further session is
\* constructed only after close() released the previous one, and __aenter__
\* is awaited by one call at a time, under the lock, on the session the
\* instance holds.
C11_SingleInitialization ==
    \A k \in Clients :
        /\ Cardinality({ i \in SessionsOf(k) : sessions[i].state # "exited" }) <= 1
        /\ Cardinality(SessionsOf(k))
              <= 1 + Cardinality({ i \in SessionsOf(k) : sessions[i].state = "exited" })
        /\ closes = 0 => Cardinality(SessionsOf(k)) <= 1
        /\ \A c, d \in Calls :
              (self[c] = k /\ self[d] = k /\ entering[c] # 0 /\ entering[d] # 0)
              => c = d
        /\ \A c \in Calls :
              (self[c] = k /\ entering[c] # 0)
              => /\ _lock[k] = c
                 /\ sessions[entering[c]].owner = k

C11_Witness ==
    \E c, d \in Calls :
        /\ c # d
        /\ closes = 0
        /\ self[c] = "ready" /\ self[d] = "ready"
        /\ gpc[c] = "aenter"
        /\ gpc[d] = "net"
        /\ client[d] = entering[c]
        /\ Cardinality(SessionsOf("ready")) = 1

\* C12: a session that close() has begun to release is not used again: no
\* generate call starts a chat.complete_async request on a session whose
\* __aexit__ was called, whether the call began before or after close().
C12_ClosedSessionNeverUsed ==
    [][ \A c \in Calls :
           (gpc'[c] = "net" /\ gpc[c] # "net")
           => sessions'[client'[c]].state \notin {"exiting", "exited"} ]_vars

(***************************************************************************)
(* Claims about _process_jobs                                              *)
(***************************************************************************)
\* the value of the `jobs` argument: the entries iterated, by value
JobsValue ==
    IF jobs.t = "list"
    THEN JList([i \in 1..Len(jobs.v) |-> JobEntry(jobs.v[i])])
    ELSE jobs

\* the positions of the object-shaped entries of `jobs`
DictEntries ==
    IF jobs.t = "list"
    THEN { i \in 1..Len(jobs.v) : JobEntry(jobs.v[i]).t = "dict" }
    ELSE {}

RECURSIVE SumOver(_, _)
SumOver(f, keys) ==
    IF keys = {} THEN 0
    ELSE LET k == CHOOSE x \in keys : TRUE IN f[k] + SumOver(f, keys \ {k})

\* sum(job_counts.values())
CountsTotal == SumOver(job_counts, DOMAIN job_counts)

\* a field holding a non-empty string
HasText(fields, key) ==
    /\ FieldIndex(fields, key) # 0
    /\ Get(fields, key).t = "str"
    /\ Get(fields, key).v # <<>>

\* the entries with a non-empty jobstatus or status
WithStatus ==
    { i \in DictEntries : HasText(JobEntry(jobs.v[i]).v, s_jobstatus)
                          \/ HasText(JobEntry(jobs.v[i]).v, s_status) }

\* the status a job reports: its jobstatus, or else its status
ObservedStatus(fields) ==
    IF HasText(fields, s_jobstatus) THEN Get(fields, s_jobstatus).v
    ELSE Get(fields, s_status).v

ObservedStatuses == { ObservedStatus(JobEntry(jobs.v[i]).v) : i \in WithStatus }

\* C13: the values of the job_counts that _process_jobs returns sum to the
\* number of object-shaped entries of jobs; the entries with no non-empty
\* jobstatus/status are the ones counted under "unknown"; entries that are
\* no objects, and a jobs value that is no list, count nothing.
C13_CountsSumToObjectEntries ==
    ppc = "returned" =>
       /\ CountsTotal = Cardinality(DictEntries)
       /\ (IF s_unknown \in DOMAIN job_counts THEN job_counts[s_unknown] ELSE 0)
             = Cardinality(DictEntries \ WithStatus)
       /\ jobs.t # "list" => job_counts = NoCounts

C13_Witness ==
    /\ ppc = "returned"
    /\ jobs.t = "list"
    /\ Len(jobs.v) = 4
    /\ Cardinality(DictEntries) = 3
    /\ Cardinality(DictEntries \ WithStatus) = 1
    /\ \E i \in 1..Len(jobs.v) : jobs.v[i] = "not_a_job"

\* C14 (as claimed): the keys of job_counts are exactly the jobstatus/status
\* values observed in the job list, every count is at least 1, and the
\* counts sum to the number of entries that have a string status.
C14_KeysAreObservedStatuses ==
    (ppc = "returned" /\ jobs.t = "list") =>
       /\ DOMAIN job_counts = ObservedStatuses
       /\ \A k \in DOMAIN job_counts : job_counts[k] >= 1
       /\ CountsTotal = Cardinality(WithStatus)

\* C14 (amended): the keys of job_counts are exactly the status labels of
\* the object-shaped entries, a label being the entry's jobstatus, or else
\* its status, or else "unknown" when it has neither; every count is at
\* least 1; the counts sum to the number of entries with a status plus the
\* number of those without, which are counted under "unknown".
C14_KeysAreStatusLabels ==
    (ppc = "returned" /\ jobs.t = "list") =>
       /\ DOMAIN job_counts
             = ObservedStatuses
               \cup (IF DictEntries \ WithStatus # {} THEN {s_unknown} ELSE {})
       /\ \A k \in DOMAIN job_counts : job_counts[k] >= 1
       /\ \A k \in ObservedStatuses :
             job_counts[k]
                = Cardinality({ i \in WithStatus :
                                   ObservedStatus(JobEntry(jobs.v[i]).v) = k })
       /\ CountsTotal
             = Cardinality(WithStatus) + Cardinality(DictEntries \ WithStatus)

C14_Witness ==
    /\ ppc = "returned"
    /\ jobs.t = "list"
    /\ Cardinality(ObservedStatuses) = 2
    /\ DictEntries \ WithStatus # {}
    /\ Cardinality(DOMAIN job_counts) = 3
    /\ \E k \in DOMAIN job_counts : job_counts[k] = 2

\* the last n items of a sequence
LastN(seq, n) ==
    IF Len(seq) <= n THEN seq ELSE SubSeq(seq, Len(seq) - n + 1, Len(seq))

\* the position of the first occurrence of x in seq, 0 when absent
FirstIndex(seq, x) ==
    IF \E i \in 1..Len(seq) : seq[i] = x
    THEN CHOOSE i \in 1..Len(seq) : seq[i] = x /\ \A j \in 1..(i - 1) : seq[j] # x
    ELSE 0

Range(seq) == { seq[i] : i \in 1..Len(seq) }

RECURSIVE CodesOfFields(_, _)
\* the strictly positive integers of the fields named like an error code,
\* from field i on, in field order
CodesOfFields(fields, i) ==
    IF i > Len(fields) THEN <<>>
    ELSE (IF /\ IsErrorCodeKey(fields[i][1])
             /\ IntOf(fields[i][2]).raised = "none"
             /\ IntOf(fields[i][2]).v > 0
          THEN <<IntOf(fields[i][2]).v>> ELSE <<>>)
         \o CodesOfFields(fields, i + 1)

RECURSIVE DiagsOfFields(_, _)
\* the trimmed non-blank strings of the fields named like a diagnostic,
\* from field i on, in field order
DiagsOfFields(fields, i) ==
    IF i > Len(fields) THEN <<>>
    ELSE (IF /\ IsErrorDiagKey(fields[i][1])
             /\ fields[i][2].t = "str"
             /\ \E j \in 1..Len(fields[i][2].v) : fields[i][2].v[j] \notin Whitespace
          THEN <<Strip(fields[i][2].v)>> ELSE <<>>)
         \o DiagsOfFields(fields, i + 1)

\* per entry, its positive error codes and its diagnostics
EntryCodes ==
    [id \in JobEntryIds |->
        IF JobEntry(id).t = "dict" THEN CodesOfFields(JobEntry(id).v, 1) ELSE <<>>]

EntryDiags ==
    [id \in JobEntryIds |->
        IF JobEntry(id).t = "dict" THEN DiagsOfFields(JobEntry(id).v, 1) ELSE <<>>]

RECURSIVE AllCodesUpTo(_)
\* every positive error code of the first n entries, in iteration order
AllCodesUpTo(n) ==
    IF n = 0 THEN <<>>
    ELSE AllCodesUpTo(n - 1)
         \o EntryCodes[jobs.v[n]]

RECURSIVE AllDiagsUpTo(_)
\* every diagnostic of the first n entries, in iteration order
AllDiagsUpTo(n) ==
    IF n = 0 THEN <<>>
    ELSE AllDiagsUpTo(n - 1)
         \o EntryDiags[jobs.v[n]]

AllCodes == IF jobs.t = "list" THEN AllCodesUpTo(Len(jobs.v)) ELSE <<>>

AllDiags == IF jobs.t = "list" THEN AllDiagsUpTo(Len(jobs.v)) ELSE <<>>

\* C15: the error_codes that _process_jobs returns has at most 50 items,
\* all strictly positive, and is the last 50, in iteration order of the jobs
\* and of their fields, of the positive integer values of the fields whose
\* name contains "errorcode" in any case: the oldest value goes first.
C15_ErrorCodesAreLastFifty ==
    ppc = "returned" =>
       /\ Len(error_codes) <= 50
       /\ \A i \in 1..Len(error_codes) : error_codes[i] > 0
       /\ error_codes = LastN(AllCodes, 50)

C15_Witness ==
    /\ ppc = "returned"
    /\ Len(AllCodes) = 53
    /\ Len(error_codes) = 50
    /\ AllCodes[1] = 191
    /\ error_codes[1] = 103
    /\ error_codes[50] = 113

\* what _process_jobs returns for the list without its last entry
ResultBeforeLast ==
    _process_jobs(JList(SubSeq(JobsValue.v, 1, Len(jobs.v) - 1)))

\* the diagnostics of the last entry of the list
LastEntryDiags == Range(EntryDiags[jobs.v[Len(jobs.v)]])

\* what holds of error_diags under both readings of the claim: at most 20
\* strings, none blank, none twice, each trimmed
DiagsAreCleanAndUnique ==
    /\ Len(uniq_diags) <= 20
    /\ \A i \in 1..Len(uniq_diags) :
          /\ uniq_diags[i] # <<>>
          /\ uniq_diags[i][1] \notin Whitespace
          /\ uniq_diags[i][Len(uniq_diags[i])] \notin Whitespace
    /\ \A i, j \in 1..Len(uniq_diags) : i # j => uniq_diags[i] # uniq_diags[j]

\* C16 (as claimed): error_diags has at most 20 strings, none blank, none
\* twice, each trimmed, in the order in which the strings first occur in
\* the job list; and adding a job whose diagnostics all occurred in the
\* list before does not lengthen the result.
C16_DiagsInFirstOccurrenceOrder ==
    (ppc = "returned" /\ jobs.t = "list") =>
       /\ DiagsAreCleanAndUnique
       /\ \A all \in {AllDiags} :
             \A i, j \in 1..Len(uniq_diags) :
                i < j => FirstIndex(all, uniq_diags[i])
                            < FirstIndex(all, uniq_diags[j])
       /\ (Len(jobs.v) > 0
             /\ LastEntryDiags \subseteq Range(AllDiagsUpTo(Len(jobs.v) - 1)))
             => Len(uniq_diags) <= Len(ResultBeforeLast.error_diags)

\* C16 (amended): error_diags has at most 20 strings, none blank, none
\* twice, each trimmed; it holds the strings of the last 20 diagnostics of
\* the job list, in the order in which they first occur among those 20;
\* and adding a job whose diagnostics are all in the result already does
\* not lengthen the result.
C16_DiagsOfLastTwenty ==
    (ppc = "returned" /\ jobs.t = "list") =>
       /\ DiagsAreCleanAndUnique
       /\ \A recent \in {LastN(AllDiags, 20)} :
             /\ Range(uniq_diags) = Range(recent)
             /\ \A i, j \in 1..Len(uniq_diags) :
                   i < j => FirstIndex(recent, uniq_diags[i])
                               < FirstIndex(recent, uniq_diags[j])
       /\ (Len(jobs.v) > 0
             /\ LastEntryDiags \subseteq Range(ResultBeforeLast.error_diags))
             => Len(uniq_diags) <= Len(ResultBeforeLast.error_diags)

C16_Witness ==
    /\ ppc = "returned"
    /\ jobs.t = "list"
    /\ Len(AllDiags) = 22
    /\ Len(uniq_diags) = 8
    /\ LastEntryDiags # {}
    /\ LastEntryDiags \subseteq Range(ResultBeforeLast.error_diags)
    /\ uniq_diags[1] # AllDiags[1]

\* a job without its fields named like an error code whose value int()
\* rejects
WithoutUnparsableCodes(job) ==
    IF job.t # "dict" THEN job
    ELSE JDict(SelectSeq(job.v,
                 LAMBDA f : ~(IsErrorCodeKey(f[1]) /\ IntOf(f[2]).raised # "none")))

\* C17: a field named like an error code whose value int() rejects
\* (a non-numeric string, null, a list, an object, a non-finite number) is
\* skipped: _process_jobs does not raise, and returns what it returns for
\* the same list with those fields removed.
C17_UnparsableCodeIsSkipped ==
    /\ ppc # "raised"
    /\ (ppc = "returned" /\ jobs.t = "list") =>
          [raised |-> "none", job_counts |-> job_counts,
           error_codes |-> error_codes, error_diags |-> uniq_diags]
          = _process_jobs(JList([i \in 1..Len(jobs.v) |->
                                    WithoutUnparsableCodes(JobEntry(jobs.v[i]))]))

(***************************************************************************)
(* Claims about _summarize_task and _extract_task_info                     *)
(***************************************************************************)
\* a status candidate that is present and not empty
NonEmpty(val) == val.t = "str" /\ val.v # <<>>

\* the named field of the task info, absent when there is no task info
TaskInfoField(key) ==
    IF task_info.t = "dict" THEN Get(task_info.v, key) ELSE JNull

\* C18: the status of the TaskSummary is the first non-empty of
\* task-info.taskstatus, task-info.status, payload.taskstatus and
\* payload.status, in this order, and "unknown" when none is; a later
\* candidate never replaces an earlier non-empty one.
C18_StatusIsFirstNonEmpty ==
    spc = "done" =>
       summary.status =
          (IF NonEmpty(TaskInfoField(s_taskstatus)) THEN TaskInfoField(s_taskstatus).v
           ELSE IF NonEmpty(TaskInfoField(s_status)) THEN TaskInfoField(s_status).v
           ELSE IF NonEmpty(payload.taskstatus) THEN payload.taskstatus.v
           ELSE IF NonEmpty(payload.status) THEN payload.status.v
           ELSE s_unknown)

\* task_info {"taskstatus": "running"} with payload status "done" gives
\* "running"
C18_Witness ==
    /\ spc = "done"
    /\ payload.task.t = "dict"
    /\ NonEmpty(TaskInfoField(s_taskstatus))
    /\ TaskInfoField(s_status) = JNull
    /\ payload.taskstatus = JNull
    /\ payload.status = JStr(<<"d", "o", "n", "e">>)
    /\ summary.status = <<"r", "u", "n", "n", "i", "n", "g">>

\* C19: _extract_task_info returns the first element of payload.task when
\* that is a non-empty list whose first element is an object, payload.task
\* when it is an object itself, and nothing in every other case.
C19_TaskInfoByShape ==
    spc = "done" =>
       IF payload.task.t = "list" /\ Len(payload.task.v) > 0
             /\ payload.task.v[1].t = "dict"
       THEN task_info = payload.task.v[1]
       ELSE IF payload.task.t = "dict"
       THEN task_info = payload.task
       ELSE task_info = JNull

C19_Witness ==
    /\ spc = "done"
    /\ payload.task.t = "list"
    /\ Len(payload.task.v) = 2
    /\ payload.task.v[1].t # "dict"
    /\ payload.task.v[2].t = "dict"
    /\ task_info = JNull

(***************************************************************************)
(* Claims about the text of PandaTaskStatusTool.call                       *)
(***************************************************************************)
\* the task field is absent, empty, or neither a list nor an object
TaskUnusable(p) ==
    \/ p.task = JNull
    \/ p.task \in {JList(<<>>), JDict(<<>>)}
    \/ p.task.t \notin {"list", "dict"}

\* the jobs field is absent or is not a non-empty list
JobsUnusable(p) ==
    \/ p.jobs = JNull
    \/ ~(p.jobs.t = "list" /\ p.jobs.v # <<>>)

\* the lines of the status, job-count and error sections
ReportKinds ==
    {"status", "job_counts", "job_count", "job_counts_unavailable",
     "error_codes", "error_code", "error_diags", "error_diag"}

C20_WitnessReport ==
    /\ tpc = "done"
    /\ fetched.tag = "return"
    /\ fetched.body.task = JNull
    /\ fetched.body.jobs.t = "list"
    /\ out.type = "text"
    /\ out.lines[1].kind = "task"
    /\ \E i \in 1..Len(out.lines) : out.lines[i].kind = "error_diag"

\* call() gave the report of a task that was found
IsReport == tpc = "done" /\ out.type = "text" /\ out.lines # <<>>
            /\ out.lines[1].kind = "task"

\* raw-include is in effect: asked for in the arguments or by the environment
RawInEffect == arguments.include_raw \/ panda_debug

HasLine(kind) == \E i \in 1..Len(out.lines) : out.lines[i].kind = kind

\* the lines of the debug dump and of the raw payload section
TrailerKinds == {"payload_keys", "raw_snippet", "raw_payload", "json"}

\* C21: in the report of a found task the debug dump is there exactly when
\* the status is "unknown" and raw-include is not in effect, the raw payload
\* section exactly when raw-include is in effect, never both, and both come
\* after the header, the job-count lines and the error sections.
C21_DebugAndRawSections ==
    IsReport =>
       /\ HasLine("payload_keys") <=>
             (out.lines[2] = Line("status", <<JStr(s_unknown)>>) /\ ~RawInEffect)
       /\ HasLine("raw_snippet") <=> HasLine("payload_keys")
       /\ HasLine("raw_payload") <=> RawInEffect
       /\ ~(HasLine("payload_keys") /\ HasLine("raw_payload"))
       /\ \A i, j \in 1..Len(out.lines) :
             (out.lines[i].kind \in TrailerKinds
              /\ out.lines[j].kind \in ReportKinds \cup {"task", "monitor"})
             => j < i

\* a report with status "unknown", error sections and the debug dump
C21_Witness ==
    /\ IsReport
    /\ ~RawInEffect
    /\ out.lines[2] = Line("status", <<JStr(s_unknown)>>)
    /\ HasLine("error_diag")
    /\ HasLine("payload_keys")
    /\ ~HasLine("raw_payload")

(***************************************************************************)
(* Claims about _normalize_messages                                        *)
(***************************************************************************)
\* the role of an input message, "user" when it has none
RoleIn(m) == IF m.role = None THEN r_user ELSE m.role[1]

ContentIn(m) == IF m.content = None THEN <<>> ELSE m.content[1]

\* the message names a tool
NamePresent(m) == m.name # None /\ m.name[1] # <<>>

\* C22: _normalize_messages returns one provider message per input message,
\* in the same order, each with a role among system, user and assistant:
\* these three are kept, tool becomes assistant with the content prefixed by
\* the bracketed tag of the tool when a name is present and unchanged when
\* not, and every other role becomes user.
C22_OneProviderMessageEach ==
    npc = "returned" =>
       /\ Len(nm_out) = Len(messages)
       /\ \A i \in 1..Len(messages) :
             /\ nm_out[i].role \in {r_system, r_user, r_assistant}
             /\ RoleIn(messages[i]) \in {r_system, r_user, r_assistant} =>
                   /\ nm_out[i].role = RoleIn(messages[i])
                   /\ nm_out[i].content = ContentIn(messages[i])
             /\ RoleIn(messages[i]) = r_tool =>
                   /\ nm_out[i].role = r_assistant
                   /\ nm_out[i].content =
                         IF NamePresent(messages[i])
                         THEN <<"[", "t", "o", "o", "l", ":">> \o messages[i].name[1]
                              \o <<"]", "\n">> \o ContentIn(messages[i])
                         ELSE ContentIn(messages[i])
             /\ RoleIn(messages[i]) \notin {r_system, r_user, r_assistant, r_tool} =>
                   /\ nm_out[i].role = r_user
                   /\ nm_out[i].content = ContentIn(messages[i])

\* a named tool message followed by a message of an unknown role
C22_Witness ==
    /\ npc = "returned"
    /\ Len(messages) = 2
    /\ messages[1].role = Some(r_tool)
    /\ NamePresent(messages[1])
    /\ messages[2].role \notin {None, Some(r_system), Some(r_user),
                                Some(r_assistant), Some(r_tool)}
    /\ nm_out[1].role = r_assistant
    /\ Len(nm_out[1].content) > Len(ContentIn(messages[1]))
    /\ nm_out[2].role = r_user

(***************************************************************************)
(* Claims about AskPandaAnswerTool.call                                    *)
(***************************************************************************)
\* the call was refused for having neither question nor messages (line 87)
Refused == apc = "done" /\ a_out.what = "ValueError"

\* the call is not a bypass and a task id was found in its question
Routed == ~a_arguments.bypass_routing /\ a_task_id # None

\* the name of the evidence the task-status tool gave
EvidenceObtained ==
    IF tool_result[1].evidence # None THEN tool_result[1].evidence[1].name
    ELSE tool_result[1].name

\* C23: a call without bypass whose question has a task id calls the
\* task-status tool exactly once and before any LLM call, then makes exactly
\* one passthrough call whose user message carries the evidence obtained; a
\* call with bypass or without task id makes exactly one passthrough call and
\* never calls the task-status tool.
C23_StatusFirstThenOnePassthrough ==
    (apc # "idle" /\ ~Refused) =>
       /\ a_question = <<"s", "t", "a", "t", "u", "s", " ", "o", "f", " ", "t", "a", "s", "k", " ", "7">> =>
             (a_arguments.bypass_routing \/ a_task_id = Some(7))
       /\ a_question \in {<<"h", "e", "l", "l", "o">>, <<"s", "u", "b", "t", "a", "s", "k", " ", "5">>} => a_task_id = None
       /\ IF Routed
          THEN /\ a_calls[1] = ToolCall("task_status", a_task_id, Some(a_question),
                                        TRUE, <<>>, None)
               /\ apc = "status" => Len(a_calls) = 1
               /\ apc \in {"llm", "done"} =>
                     /\ Len(a_calls) = 2
                     /\ a_calls[2].tool = "llm_answer"
                     /\ \E i \in 1..Len(a_calls[2].messages) :
                           /\ a_calls[2].messages[i].role = r_user
                           /\ a_calls[2].messages[i].content.t = "prompt"
                           /\ a_calls[2].messages[i].content.evidence.of = EvidenceObtained
          ELSE /\ Len(a_calls) = 1
               /\ a_calls[1].tool = "llm_answer"

\* a question with a task id, answered from evidence longer than the limit
C23_Witness ==
    /\ apc = "done"
    /\ a_out.type = "text"
    /\ Routed
    /\ a_task_id = Some(12)
    /\ tool_result # None
    /\ EvidenceObtained = "jobs"
    /\ Len(a_calls) = 2
    /\ a_calls[2].messages[2].content.evidence.truncated

(***************************************************************************)
(* Further claims about generate                                           *)
(***************************************************************************)
\* C24: no generate call obtains or uses the session of a client before the
\* initialization of that session has completed: a call is in
\* chat.complete_async only on a session whose __aenter__ has returned, be it
\* that another caller is still suspended in __aenter__ or that __aenter__
\* has failed.
C24_NoSessionBeforeEntered ==
    \A c \in Calls :
        gpc[c] = "net" => sessions[client[c]].state # "constructed"

\* C25: a generate call that has entered the gate gives its slot back on
\* every exit path and holds it across all its attempts and waits: with no
\* call in progress the free slots are the limit, a step of a call that stays
\* inside the gate leaves the free slots alone, a call that leaves gives back
\* one slot, and a caller blocked at the gate then finds a slot free.
C25_SlotHeldThenReleased ==
    /\ [](InsideGate = {} => sem = limit)
    /\ [][ \A c \in Calls :
             /\ (c \in InsideGate /\ gpc'[c] \in {"lockwait", "aenter", "net", "sleep"}
                 /\ \A d \in Calls \ {c} : gpc'[d] = gpc[d])
                   => sem' = sem
             /\ (c \in InsideGate /\ gpc'[c] = "done")
                   => /\ sem' = sem + 1
                      /\ \A d \in Calls :
                            (gpc[d] = "gate" /\ gpc'[d] = "gate") => GateOpen(sem') ]_vars

\* a call that held the only slot ended in a timeout, and the slot is free
\* for the call waiting at the gate
C25_Witness ==
    \E c, d \in Calls :
        /\ limit = 1
        /\ gpc[c] = "done"
        /\ result[c].tag = "LLMTimeoutError"
        /\ gpc[d] = "gate"
        /\ sem = 1

\* C26: a backoff wait happens only between two attempts: a call that ends
\* with LLMProviderError after `tries` failed attempts has waited tries - 1
\* times, for base, 2 * base, ..., base * 2^(tries - 2).
C26_WaitsOnlyBetweenAttempts ==
    \A c \in Calls :
        (gpc[c] = "done" /\ result[c].tag = "LLMProviderError" /\ tries >= 1)
        => gwaits[c] = [i \in 1..(tries - 1) |-> MistralBackoffDefault * Pow2(i - 1)]

(***************************************************************************)
(* Further claims about call and _process_jobs                             *)
(***************************************************************************)
\* the payload has a task-info object: an object, or a list that starts
\* with one
HasTaskInfo(p) ==
    \/ p.task.t = "dict"
    \/ (p.task.t = "list" /\ p.task.v # <<>> /\ p.task.v[1].t = "dict")

\* the jobs list of the payload holds an object
HasJobObject(p) ==
    p.jobs.t = "list" /\ \E i \in 1..Len(p.jobs.v) : p.jobs.v[i].t = "dict"

\* C27: whenever call gives the report of a found task and not the not-found
\* message, the summarizer had usable input: a task-info object, or a jobs
\* list with at least one object in it.
C27_ReportOnlyOfUsableInput ==
    IsReport => (HasTaskInfo(fetched.body) \/ HasJobObject(fetched.body))

\* C28 (as claimed): of a job list with at most 20 distinct non-blank
\* diagnostics, error_diags holds every one, however often they are repeated.
C28_NoDistinctDiagLost ==
    (ppc = "returned" /\ jobs.t = "list") =>
       \A all \in {AllDiags} :
          Cardinality(Range(all)) <= 20 => Range(all) \subseteq Range(uniq_diags)

\* C28 (amended): of a job list with at most 20 non-blank diagnostics,
\* repeats counted, error_diags holds every distinct one, in whatever order
\* they occur.
C28_NoDiagLostUpToTwenty ==
    (ppc = "returned" /\ jobs.t = "list") =>
       \A all \in {AllDiags} :
          Len(all) <= 20 => Range(all) \subseteq Range(uniq_diags)

\* 17 diagnostics, 9 of them distinct, all in the result
C28_Witness ==
    /\ ppc = "returned"
    /\ jobs.t = "list"
    /\ Len(AllDiags) = 17
    /\ Cardinality(Range(AllDiags)) = 9
    /\ Len(uniq_diags) = 9

\* C29: call uses the task_id argument when it is given and searches the
\* question only when it is not; when neither gives a task id, the call
\* returns the "could not determine task id" text without any fetch attempt.
C29_ExplicitIdThenQuestion ==
    tpc # "idle" =>
       /\ arguments.task_id # None => task_id = arguments.task_id
       /\ arguments.task_id = None =>
             task_id = extract_task_id_from_text(arguments.question)
       /\ task_id = None =>
             /\ tpc = "done"
             /\ out = Text("no_task_id")
             /\ log = <<>> /\ attempt = 0 /\ inflight = 0 /\ fetched = NotFetched

\* a call with task_id 7 and a question about task 8 has reported on task 7
C29_Witness ==
    /\ arguments.task_id = Some(7)
    /\ extract_task_id_from_text(arguments.question) = Some(8)
    /\ IsReport
    /\ out.lines[1].parts = <<JInt(7)>>

\* a call with neither has ended without a fetch
C29_WitnessNoId ==
    /\ tpc = "done"
    /\ arguments.task_id = None
    /\ arguments.question = <<"hello">>
    /\ out = Text("no_task_id")
    /\ log = <<>>

(***************************************************************************)
(* Claims about the task-status wrapper                                    *)
(***************************************************************************)
\* an underlying implementation is there: a module was imported and has the
\* tool object's call, a callable `call` or a callable fallback function
ImplementationFound ==
    /\ _real.imported
    /\ \/ _real.tool_call # "absent"
       \/ _real.call = "callable"
       \/ \E i \in 1..Len(FallbackNames) : _real.names[i] = "callable"

\* fn is the implementation the precedence gives
FirstByPrecedence(fn) ==
    \/ fn = "panda_task_status_tool.call" /\ _real.tool_call # "absent"
    \/ fn = "call" /\ _real.tool_call = "absent" /\ _real.call = "callable"
    \/ /\ _real.tool_call = "absent" /\ _real.call # "callable"
       /\ \E i \in 1..Len(FallbackNames) :
             /\ fn = FallbackNames[i]
             /\ _real.names[i] = "callable"
             /\ \A j \in 1..(i - 1) : _real.names[j] # "callable"

\* C30: the wrapper's call never raises. An underlying implementation that is
\* found is invoked exactly once with the arguments, chosen by the precedence
\* tool object's call, module-level call, first fallback function; what it
\* returns is returned, and an exception it raises is returned as the error
\* mapping with the provided arguments. When none is found, the stub's error
\* mapping is returned and nothing is invoked.
C30_WrapperNeverRaises ==
    wpc # "idle" =>
       /\ w_out.kind # "raised"
       /\ IF ImplementationFound
          THEN /\ Len(invoked) = 1
               /\ FirstByPrecedence(invoked[1].fn)
               /\ invoked[1].arguments = w_arguments
               /\ wpc = "done" =>
                     /\ underlying.kind = "return" =>
                           (w_out.kind = "value" /\ w_out.value = underlying.v)
                     /\ underlying.kind = "raise" =>
                           /\ w_out.kind = "error"
                           /\ w_out.value = "underlying task_status raised"
                           /\ w_out.exception = underlying.v
                           /\ w_out.provided_arguments = w_arguments
                     /\ underlying.kind # "none"
          ELSE /\ invoked = <<>>
               /\ wpc = "done"
               /\ w_out.kind = "error"
               /\ w_out.value = "no underlying task_status implementation found"
               /\ w_out.provided_arguments = w_arguments

\* the fallback `run` was the first callable one, was run in a thread and
\* raised, and the error mapping came back
C30_Witness ==
    /\ wpc = "done"
    /\ _real.tool_call = "absent" /\ _real.call = "noncallable"
    /\ _real.names[1] = "noncallable" /\ _real.names[4] = "callable"
    /\ invoked = <<Invocation("run", [task_id |-> 8], "to_thread")>>
    /\ underlying = [kind |-> "raise", v |-> "HTTPError"]
    /\ w_out = RaisedMapping("HTTPError", [task_id |-> 8])

\* a module with nothing to call: the stub answered
C30_WitnessStub ==
    /\ wpc = "done"
    /\ _real.imported
    /\ _real.call = "noncallable"
    /\ invoked = <<>>
    /\ w_out = _stub_call(w_arguments)

====
